---- MODULE Spec2Model ----
(***************************************************************************)
(* A model of mcp-trace.                                                   *)
(* The proxy side:                                                         *)
(*   - BufferedIpcClient (mcp-proxy/src/buffered_ipc_client.rs): the       *)
(*     caller-facing send(), the bounded mpsc queue, the overflow buffer   *)
(*     and the background worker run_client_task with its reconnect loop;  *)
(*   - the monitor as seen from the proxy: a unix socket that is bound or  *)
(*     not, and a connection whose peer end is open or closed;             *)
(*   - MCPProxy::start (mcp-proxy/src/proxy.rs) and the multiplex loop of  *)
(*     StdioHandler::handle_communication (mcp-proxy/src/stdio_handler.rs) *)
(*     with a child that echoes its input line by line (cat), once at the  *)
(*     level of lines and once at the level of the pipes.                  *)
(* The monitor side:                                                       *)
(*   - App (mcp-monitor/src/app.rs) and the UI loop run_app with the       *)
(*     reader tasks of run_ipc_server (mcp-monitor/src/lib.rs);            *)
(*   - IpcConnection (mcp-common/src/ipc.rs), one writer and one reader.   *)
(* Events are numbered in the order in which send() is called by the one   *)
(* caller (the stdio bridge task), so event ids are acceptance order.      *)
(***************************************************************************)
EXTENDS Integers, Sequences, FiniteSets, TLC

\* ---------------------------------------------------------------- bounds
\* Number of tracked events the caller hands to send().
MaxEvents == 4
\* Capacity of the mpsc channel (1000 in the source, scaled down).
CHANNEL_CAPACITY == 2
\* Cap of the overflow buffer (10_000 in the source, scaled down).
MAX_BUFFER_SIZE == 2
\* How many times a monitor process is started.
MaxMonitorStarts == 2

\* Number of lines the user writes to the proxy's stdin.
MaxLines == 2
\* Number of lines the child writes to its stderr.
MaxErrLines == 1

\* Number of messages written with send_message on the one connection.
MaxMessages == 2
\* Number of characters of the text of a message.
MaxMessageLen == 2

\* Cap of the monitor's log (10_000 in the source, scaled down).
MAX_LOGS == 2
\* Number of NewLogEntry events the UI task handles on its own.
MaxArrived == 3
\* Number of keys the user presses.
MaxKeys == 4
\* Number of characters the user types into the search query.
MaxQuery == 2
\* Largest height of the log area.
MaxHeight == 1
\* Number of proxy connections the monitor accepts.
MaxConns == 2
\* Number of event lines a proxy writes to its connection.
MaxEnvelopes == 2
\* Capacity of the monitor's event channel (100 in the source, scaled down).
EVENT_QUEUE_CAPACITY == 1
\* What an OS pipe holds, in units of text (64 KiB on Linux, scaled down).
PipeCapacity == 1
\* Number of lines the user writes in the model of the pipes.
MaxPipeLines == 2

\* ------------------------------------------------------ program constants
INITIAL_RECONNECT_DELAY == 1
MAX_RECONNECT_DELAY == 30
RECONNECT_BACKOFF_FACTOR == 2
\* let page_size = 10 in page_up and page_down
PAGE_SIZE == 10

VARIABLES
    \* BufferedIpcClient
    queue,              \* contents of the mpsc channel sender -> receiver
    buffer,             \* the shared overflow VecDeque
    client,             \* worker local: "None" or "Some"
    reconnect_delay,    \* worker local, in seconds
    delayElapsed,       \* last_connect_attempt.elapsed() >= reconnect_delay
    workerPc,           \* "select", "flush" (inside the flush loop), "done"
    messages_to_send,   \* worker local: what the flush drained and has not sent yet
    shutdownSent,       \* shutdown() has put () into the shutdown channel
    \* the caller of send()
    nextId,             \* id of the next event the caller will send
    pendingSend,        \* event of a send() suspended on the full channel, 0 if none
    \* the monitor
    listening,          \* a monitor is bound at the socket path
    peerOpen,           \* the monitor's end of the worker's current connection is open
    monitorStarts,      \* number of monitor starts so far
    \* history
    delivered,          \* events written to the monitor, in order, over all connections
    dropped,            \* events dropped because the overflow buffer was full
    connects,           \* number of successful connects of the worker
    \* MCPProxy::start and StdioHandler
    bridgePc,           \* "start", "started", "select", "done"
    ipc_client,         \* the handler's client: "None", "Direct" (IpcClient), "Buffered"
    directOpen,         \* the monitor's end of the proxy's own connection is open
    stats,              \* the shared ProxyStats counters
    shutdownSignal,     \* the shutdown broadcast has been sent
    exitReason,         \* why the loop ended, "" while it runs
    \* user stdin -> child stdin
    stdinNext,          \* index of the next line of user stdin
    stdinHeadTaken,     \* the part of that line before its end left the BufReader
    stdinHeld,          \* the pending read_line future still holds that part
    childIn,            \* lines written and flushed to child stdin
    \* the child and child stdout -> user stdout
    childState,         \* "running", "exited_ok", "exited_fail"
    childEchoed,        \* how many lines of childIn the child has written to stdout
    stdoutNext,         \* index of the next child stdout line
    stdoutHeadTaken,
    stdoutHeld,
    userOut,            \* lines written and flushed to user stdout
    \* child stderr
    errLines,           \* stderr lines read so far
    stderrClosed,
    \* history
    sent,               \* ProxyStarted and log entries for which client.send returned Ok
    emitErr,            \* some client.send of the proxy returned Err
    \* the monitor process: App (mcp-monitor/src/app.rs) and run_app
    app,                \* the App struct, a record with the fields of the source
    uiState,            \* the UI task: "running", "quit", "panicked"
    \* run_ipc_server: the accepted connections and their reader tasks
    wire,               \* per connection: lines written by the proxy and not read yet
    wireClosed,         \* per connection: the proxy closed its end
    readerPc,           \* per connection: "idle" (not accepted), "recv", "send", "done"
    readerEvent,        \* per connection: the event of a pending tx.send, NoEvent if none
    event_rx,           \* contents of the mpsc channel reader tasks -> UI task
    \* history
    arrived,            \* number of NewLogEntry events handled
    keys,               \* number of key presses handled
    readLog,            \* per connection: the events its reader mapped from envelopes
    applied,            \* <<connection, event>> handed to handle_event, in order
    \* one IpcConnection pair (mcp-common/src/ipc.rs), at the level of bytes
    ipcWriting,         \* <<m>> while send_message(m) is writing, << >> otherwise
    ipcPending,         \* bytes of the running send_message not written yet
    ipcStream,          \* bytes written to the socket and not read yet
    ipcClosed,          \* the writing end is closed
    ipcLine,            \* bytes the running read_line has taken so far
    \* history
    ipcSent,            \* messages for which send_message returned Ok, in order
    ipcReceived,        \* results of the receive_message calls, in order
    \* the stdio bridge and an echoing child, at the level of the pipes
    pipePc,             \* handle_communication: "select", "write_stdin", "done"
    pipeLinesRead,      \* lines read from user stdin so far
    pipeToWrite,        \* units of the line that write_all has not written yet
    pipeIn,             \* units in the pipe to the child's stdin
    pipeHeld,           \* units the child has read and not written yet
    pipeOut,            \* units in the pipe from the child's stdout
    pipeShutdown,       \* the shutdown signal was sent
    \* history
    pipeForwarded       \* units read_line has taken from the child's stdout

bridgeVars == <<bridgePc, ipc_client, stats, shutdownSignal, exitReason,
                stdinNext, stdinHeadTaken, stdinHeld, childIn,
                childState, childEchoed, stdoutNext, stdoutHeadTaken, stdoutHeld,
                userOut, errLines, stderrClosed, sent, emitErr>>

clientVars == <<queue, buffer, client, reconnect_delay, delayElapsed, workerPc,
                messages_to_send, shutdownSent, nextId, pendingSend,
                listening, peerOpen, monitorStarts, delivered, dropped, connects>>

appVars == <<app, uiState, arrived, keys>>

readerVars == <<wire, wireClosed, readerPc, readerEvent, event_rx, readLog, applied>>

ipcVars == <<ipcWriting, ipcPending, ipcStream, ipcClosed, ipcLine, ipcSent, ipcReceived>>

pipeVars == <<pipePc, pipeLinesRead, pipeToWrite, pipeIn, pipeHeld, pipeOut,
              pipeShutdown, pipeForwarded>>

monitorVars == <<appVars, readerVars, ipcVars, pipeVars>>

vars == <<clientVars, bridgeVars, directOpen, monitorVars>>

\* ---------------------------------------------------------------- helpers
Range(s) == {s[i] : i \in 1..Len(s)}

Min(a, b) == IF a < b THEN a ELSE b

\* if buf.len() < MAX_BUFFER_SIZE { buf.push_back(message) } -- mutant: no cap
BoundedPushNoCap(buf, m) == Append(buf, m)

\* mutant: evict the head to make room
BoundedPushEvict(buf, m) ==
    IF Len(buf) < MAX_BUFFER_SIZE THEN Append(buf, m) ELSE Append(Tail(buf), m)

\* mutant: push_front instead of push_back
BoundedPushFront(buf, m) ==
    IF Len(buf) < MAX_BUFFER_SIZE THEN <<m>> \o buf ELSE buf

\* if buf.len() < MAX_BUFFER_SIZE { buf.push_back(message) }
BoundedPush(buf, m) ==
    IF Len(buf) < MAX_BUFFER_SIZE THEN Append(buf, m) ELSE buf

\* The events a bounded push loses: the incoming one when the buffer is full.
PushDrops(buf, m) ==
    IF m \in Range(BoundedPush(buf, m)) THEN {} ELSE {m}

\* mutant of Backoff: the delay doubles without a cap
BackoffNoCap(d) == d * RECONNECT_BACKOFF_FACTOR

\* min(reconnect_delay * RECONNECT_BACKOFF_FACTOR, MAX_RECONNECT_DELAY)
Backoff(d) == Min(d * RECONNECT_BACKOFF_FACTOR, MAX_RECONNECT_DELAY)

\* An untracked event sent after the tracked ones (sustained traffic).
Later == MaxEvents + 1

\* The histories keep the tracked events only.
Record(hist, m) == IF m = Later THEN hist ELSE Append(hist, m)

\* IpcClient::send succeeds iff the peer end of the connection is still open.
SendOk == client = "Some" /\ peerOpen

\* ------------------------------------------------------------------- Init
\* ------------------------------------------ values of the monitor state
TabType == {"All", "Messages", "Errors", "System"}

LogLevel == {"Debug", "Info", "Warning", "Error", "Request", "Response"}

NavigationMode == {"Follow", "Navigate", "Search", "SearchResults"}

ProxyIds == {"p1", "p2"}

\* Option::None of selected_proxy and of selected_log_index.
NoProxy == "none"

NoIndex == -1

\* App::new
AppNew ==
    [ proxies |-> << >>,
      logs |-> << >>,
      selected_index |-> 0,
      viewport_offset |-> 0,
      selected_proxy |-> NoProxy,
      proxy_selected_index |-> 0,
      focus_area |-> "LogView",
      active_tab |-> "Messages",
      tab_states |-> [t \in TabType |->
                        [selected_index |-> 0, viewport_offset |-> 0,
                         navigation_mode |-> "Follow"]],
      selected_log_index |-> NoIndex,
      show_detail_view |-> FALSE,
      navigation_mode |-> "Follow",
      search_query |-> << >>,
      search_results |-> << >>,
      search_cursor |-> 0,
      show_help_dialog |-> FALSE ]

Conns == 1..MaxConns

\* No event is held by a reader task.
NoEvent == <<"None", 0>>

\* The proxy side after construction.
ProxyInit ==
    /\ queue = <<>>
    /\ buffer = <<>>
    /\ client = "None"
    /\ reconnect_delay = INITIAL_RECONNECT_DELAY
    /\ delayElapsed = TRUE
    /\ workerPc = "select"
    /\ messages_to_send = <<>>
    /\ shutdownSent = FALSE
    /\ nextId = 1
    /\ pendingSend = 0
    /\ listening \in BOOLEAN
    /\ peerOpen = FALSE
    /\ monitorStarts = 0
    /\ delivered = <<>>
    /\ dropped = {}
    /\ connects = 0
    /\ bridgePc = "start"
    /\ ipc_client = "None"
    /\ directOpen = FALSE
    /\ stats = [total_requests |-> 0, successful_requests |-> 0,
                failed_requests |-> 0, bytes_transferred |-> 0]
    /\ shutdownSignal = FALSE
    /\ exitReason = ""
    /\ stdinNext = 1
    /\ stdinHeadTaken = FALSE
    /\ stdinHeld = FALSE
    /\ childIn = <<>>
    /\ childState = "running"
    /\ childEchoed = 0
    /\ stdoutNext = 1
    /\ stdoutHeadTaken = FALSE
    /\ stdoutHeld = FALSE
    /\ userOut = <<>>
    /\ errLines = 0
    /\ stderrClosed = FALSE
    /\ sent = <<>>
    /\ emitErr = FALSE

\* run_ipc_server before any proxy has connected.
\* IpcConnection::new on both ends of a fresh socket
IpcInit ==
    /\ ipcWriting = << >>
    /\ ipcPending = << >>
    /\ ipcStream = << >>
    /\ ipcClosed = FALSE
    /\ ipcLine = << >>
    /\ ipcSent = << >>
    /\ ipcReceived = << >>

\* handle_communication is entered: nothing written, the pipes are empty
PipeInit ==
    /\ pipePc = "select"
    /\ pipeLinesRead = 0
    /\ pipeToWrite = 0
    /\ pipeIn = 0
    /\ pipeHeld = 0
    /\ pipeOut = 0
    /\ pipeShutdown = FALSE
    /\ pipeForwarded = 0

ReaderInit ==
    /\ wire = [c \in Conns |-> << >>]
    /\ wireClosed = [c \in Conns |-> FALSE]
    /\ readerPc = [c \in Conns |-> "idle"]
    /\ readerEvent = [c \in Conns |-> NoEvent]
    /\ event_rx = << >>
    /\ readLog = [c \in Conns |-> << >>]
    /\ applied = << >>
    /\ IpcInit
    /\ PipeInit

Init ==
    /\ ProxyInit
    /\ app = AppNew
    /\ uiState = "draw"
    /\ arrived = 0
    /\ keys = 0
    /\ ReaderInit

\* ------------------------------------------------------- BufferedIpcClient
\* What sender.send(m).await does with m once it can complete: Err when the
\* receiver is gone (then the fallback pushes into the buffer), else enqueue.
Hand(m) ==
    IF workerPc = "done"
    THEN /\ buffer' = BoundedPush(buffer, m)
         /\ dropped' = dropped \cup PushDrops(buffer, m)
         /\ queue' = queue
    ELSE /\ queue' = Append(queue, m)
         /\ UNCHANGED <<buffer, dropped>>

\* BufferedIpcClient::send: sender.send(message).await waits for capacity.
send ==
    /\ nextId <= MaxEvents
    /\ pendingSend = 0
    /\ ~shutdownSent
    /\ nextId' = nextId + 1
    /\ IF workerPc # "done" /\ Len(queue) >= CHANNEL_CAPACITY
       THEN /\ pendingSend' = nextId
            /\ UNCHANGED <<queue, buffer, dropped>>
       ELSE /\ Hand(nextId)
            /\ pendingSend' = 0
    /\ UNCHANGED <<client, reconnect_delay, delayElapsed, workerPc, messages_to_send,
                   shutdownSent, listening, peerOpen, monitorStarts, delivered, connects>>
    /\ UNCHANGED <<bridgeVars, directOpen, monitorVars>>

\* The suspended send() resumes when the channel has capacity again.
sendResume ==
    /\ pendingSend # 0
    /\ workerPc = "done" \/ Len(queue) < CHANNEL_CAPACITY
    /\ Hand(pendingSend)
    /\ pendingSend' = 0
    /\ UNCHANGED <<client, reconnect_delay, delayElapsed, workerPc, messages_to_send,
                   shutdownSent, nextId, listening, peerOpen, monitorStarts,
                   delivered, connects>>
    /\ UNCHANGED <<bridgeVars, directOpen, monitorVars>>

\* BufferedIpcClient::shutdown takes the client by value: no send() is in flight.
shutdown ==
    /\ ~shutdownSent
    /\ pendingSend = 0
    /\ shutdownSent' = TRUE
    /\ UNCHANGED <<queue, buffer, client, reconnect_delay, delayElapsed, workerPc,
                   messages_to_send, nextId, pendingSend, listening, peerOpen,
                   monitorStarts, delivered, dropped, connects>>
    /\ UNCHANGED <<bridgeVars, directOpen, monitorVars>>

\* mutant: the shutdown channel is looked at only while connected
WorkerShutdownWhenConnected ==
    /\ workerPc = "select"
    /\ shutdownSent
    /\ client = "Some"
    /\ workerPc' = "done"
    /\ UNCHANGED <<queue, buffer, client, reconnect_delay, delayElapsed,
                   messages_to_send, shutdownSent, nextId, pendingSend, listening,
                   peerOpen, monitorStarts, delivered, dropped, connects>>
    /\ UNCHANGED <<bridgeVars, directOpen, monitorVars>>

\* select! branch: _ = shutdown_rx.recv() => break
WorkerShutdown ==
    /\ workerPc = "select"
    /\ shutdownSent
    /\ workerPc' = "done"
    /\ UNCHANGED <<queue, buffer, client, reconnect_delay, delayElapsed,
                   messages_to_send, shutdownSent, nextId, pendingSend, listening,
                   peerOpen, monitorStarts, delivered, dropped, connects>>
    /\ UNCHANGED <<bridgeVars, directOpen, monitorVars>>

\* select! branch: Some(message) = receiver.recv() => forward or buffer
WorkerRecv ==
    /\ workerPc = "select"
    /\ queue # <<>>
    /\ LET m == Head(queue) IN
       /\ queue' = Tail(queue)
       /\ IF client = "Some"
          THEN IF SendOk
               THEN /\ delivered' = Record(delivered, m)
                    /\ UNCHANGED <<client, buffer, dropped>>
               ELSE /\ client' = "None"
                    /\ buffer' = BoundedPush(buffer, m)
                    /\ dropped' = dropped \cup PushDrops(buffer, m)
                    /\ UNCHANGED delivered
          ELSE /\ buffer' = BoundedPush(buffer, m)
               /\ dropped' = dropped \cup PushDrops(buffer, m)
               /\ UNCHANGED <<client, delivered>>
    /\ UNCHANGED <<reconnect_delay, delayElapsed, workerPc, messages_to_send,
                   shutdownSent, nextId, pendingSend, listening, peerOpen,
                   monitorStarts, connects>>
    /\ UNCHANGED <<bridgeVars, directOpen, monitorVars>>

\* select! branch: _ = sleep(100ms) => connect attempt.  The sleep is created
\* anew in every loop iteration, so it completes only when neither of the other
\* branches became ready for 100 ms: the queue is empty and no shutdown is sent.
SleepElapsed ==
    /\ workerPc = "select"
    /\ queue = <<>>
    /\ ~shutdownSent
    /\ client = "None"
    /\ delayElapsed
    /\ delayElapsed' = FALSE
    /\ IF listening
       THEN /\ client' = "Some"
            /\ peerOpen' = TRUE
            /\ connects' = connects + 1
            /\ reconnect_delay' = INITIAL_RECONNECT_DELAY
            /\ messages_to_send' = buffer
            /\ buffer' = <<>>
            /\ workerPc' = IF buffer = <<>> THEN "select" ELSE "flush"
       ELSE /\ reconnect_delay' = Backoff(reconnect_delay)
            /\ UNCHANGED <<client, peerOpen, connects, messages_to_send, buffer, workerPc>>
    /\ UNCHANGED <<queue, shutdownSent, nextId, pendingSend, listening,
                   monitorStarts, delivered, dropped>>
    /\ UNCHANGED <<bridgeVars, directOpen, monitorVars>>

\* One round of: for msg in messages_to_send { ipc_client.send(msg).await ... }
FlushSend ==
    /\ workerPc = "flush"
    /\ LET m == Head(messages_to_send) IN
       IF SendOk
       THEN /\ delivered' = Record(delivered, m)
            /\ messages_to_send' = Tail(messages_to_send)
            /\ workerPc' = IF Tail(messages_to_send) = <<>> THEN "select" ELSE "flush"
            /\ UNCHANGED <<buffer, dropped, client>>
       ELSE /\ buffer' = BoundedPush(buffer, m)
            /\ dropped' = dropped \cup PushDrops(buffer, m)
            /\ client' = "None"
            /\ messages_to_send' = <<>>
            /\ workerPc' = "select"
            /\ UNCHANGED delivered
    /\ UNCHANGED <<queue, reconnect_delay, delayElapsed, shutdownSent, nextId,
                   pendingSend, listening, peerOpen, monitorStarts, connects>>
    /\ UNCHANGED <<bridgeVars, directOpen, monitorVars>>

\* Time passes: reconnect_delay has elapsed since the last connect attempt.
DelayElapses ==
    /\ ~delayElapsed
    /\ client = "None"
    /\ workerPc # "done"
    /\ delayElapsed' = TRUE
    /\ UNCHANGED <<queue, buffer, client, reconnect_delay, workerPc, messages_to_send,
                   shutdownSent, nextId, pendingSend, listening, peerOpen,
                   monitorStarts, delivered, dropped, connects>>
    /\ UNCHANGED <<bridgeVars, directOpen, monitorVars>>

\* ------------------------------------------------------------ the monitor
\* IpcServer::bind at the socket path.
MonitorStart ==
    /\ ~listening
    /\ monitorStarts < MaxMonitorStarts
    /\ listening' = TRUE
    /\ monitorStarts' = monitorStarts + 1
    /\ UNCHANGED <<queue, buffer, client, reconnect_delay, delayElapsed, workerPc,
                   messages_to_send, shutdownSent, nextId, pendingSend, peerOpen,
                   delivered, dropped, connects>>
    /\ UNCHANGED <<bridgeVars, directOpen, monitorVars>>

\* The monitor goes away: the listener and every connection are closed.
MonitorStop ==
    /\ listening
    /\ listening' = FALSE
    /\ peerOpen' = FALSE
    /\ directOpen' = FALSE
    /\ UNCHANGED <<bridgeVars, monitorVars>>
    /\ UNCHANGED <<queue, buffer, client, reconnect_delay, delayElapsed, workerPc,
                   messages_to_send, shutdownSent, nextId, pendingSend,
                   monitorStarts, delivered, dropped, connects>>

\* ------------------------------------------------ MCPProxy and StdioHandler
clientOnly == <<queue, buffer, client, reconnect_delay, delayElapsed, workerPc,
                messages_to_send, shutdownSent, nextId, pendingSend, listening,
                peerOpen, monitorStarts, delivered, dropped, connects>>

\* A line of text is <<i, "full">>: the i-th line the user wrote, whole; or
\* <<i, "tail">>: that line without the part that arrived before its end.
Line(i, part) == <<i, part>>

\* input.len(), in units of half a line
LineLen(l) == IF l[2] = "full" THEN 2 ELSE 1

ProxyStartedEvent == <<"ProxyStarted", <<>> >>

\* mutant of log_request: the entry is built with the level of a response
log_request_as_response(content) == <<"Response", content>>

\* LogEntry::new(LogLevel::Request, format!("-> {}", content.trim()), proxy_id)
log_request(content) == <<"Request", content>>

\* LogEntry::new(LogLevel::Response, format!("<- {}", content.trim()), proxy_id)
log_response(content) == <<"Response", content>>

\* LogEntry::new(LogLevel::Error, format!("stderr: {}", content.trim()), proxy_id)
log_error(n) == <<"Error", n>>

\* The result of client.send(event): IpcClient::send fails on a closed
\* connection, BufferedIpcClient::send returns Ok(()) on every path.
EmitResult ==
    IF ipc_client = "Direct" /\ ~directOpen THEN "err" ELSE "ok"

\* if let Some(ref client) = self.ipc_client { client.send(event).await }
Emit(event) ==
    IF ipc_client = "None"
    THEN UNCHANGED <<sent, emitErr>>
    ELSE IF EmitResult = "ok"
         THEN sent' = Append(sent, event) /\ UNCHANGED emitErr
         ELSE emitErr' = TRUE /\ UNCHANGED sent

\* client.send(IpcMessage::StatsUpdate(stats)): the history keeps ProxyStarted
\* and the log entries only, so a stats update shows in it only when it fails.
EmitStats ==
    /\ emitErr' = (emitErr \/ (ipc_client # "None" /\ EmitResult = "err"))
    /\ UNCHANGED sent

\* mutant of AfterEmit: a failed emit ends the loop
AfterEmitBreaksOnErr(result) == IF result = "err" THEN "break" ELSE "continue"

\* if let Err(e) = client.send(..).await { warn!(..) }: the handler goes on
AfterEmit(result) == "continue"

\* What read_line returns for the next line of a source: the part of the line
\* taken out of the BufReader by an earlier read_line future is part of the
\* result only if this very future took it.
ReadLine(i, headTaken, held) ==
    IF headTaken /\ ~held THEN Line(i, "tail") ELSE Line(i, "full")

\* Every select! iteration drops the read_line futures that did not complete,
\* with what they hold.
DropPending == stdinHeld' = FALSE /\ stdoutHeld' = FALSE

\* MCPProxy::start: IpcClient::connect(socket_path), when a path is given
start_connect ==
    /\ bridgePc = "start"
    /\ \E with_socket \in BOOLEAN :
         IF with_socket /\ listening
         THEN ipc_client' = "Direct" /\ directOpen' = TRUE
         ELSE ipc_client' = "None" /\ UNCHANGED directOpen
    /\ bridgePc' = "started"
    /\ UNCHANGED <<monitorVars, clientOnly, stats, shutdownSignal, exitReason, stdinNext,
                   stdinHeadTaken, stdinHeld, childIn, childState,
                   childEchoed, stdoutNext, stdoutHeadTaken, stdoutHeld, userOut,
                   errLines, stderrClosed, sent, emitErr>>

\* MCPProxy::start: send ProxyStarted, spawn the child, enter the loop
start_send ==
    /\ bridgePc = "started"
    /\ Emit(ProxyStartedEvent)
    /\ bridgePc' = "select"
    /\ UNCHANGED <<monitorVars, clientOnly, directOpen, ipc_client, stats, shutdownSignal,
                   exitReason, stdinNext, stdinHeadTaken, stdinHeld, childIn, childState, childEchoed, stdoutNext, stdoutHeadTaken,
                   stdoutHeld, userOut, errLines, stderrClosed>>

\* StdioHandler::new(proxy_id, stats, Some(Arc<BufferedIpcClient>))
new_with_buffered ==
    /\ bridgePc = "start"
    /\ ipc_client' = "Buffered"
    /\ bridgePc' = "select"
    /\ UNCHANGED <<monitorVars, clientOnly, directOpen, stats, shutdownSignal, exitReason,
                   stdinNext, stdinHeadTaken, stdinHeld, childIn,
                   childState, childEchoed, stdoutNext, stdoutHeadTaken, stdoutHeld,
                   userOut, errLines, stderrClosed, sent, emitErr>>

\* branch 1: _ = shutdown_rx.recv() => break
BridgeShutdown ==
    /\ bridgePc = "select"
    /\ shutdownSignal
    /\ bridgePc' = "done"
    /\ exitReason' = "shutdown"
    /\ DropPending
    /\ UNCHANGED <<monitorVars, clientOnly, directOpen, ipc_client, stats, shutdownSignal,
                   stdinNext, stdinHeadTaken, childIn, childState,
                   childEchoed, stdoutNext, stdoutHeadTaken, userOut, errLines, stderrClosed, sent, emitErr>>

\* branch 2: _ = self.stats_interval.tick() => send StatsUpdate(stats)
StatsTick ==
    /\ bridgePc = "select"
    /\ EmitStats
    /\ DropPending
    /\ UNCHANGED <<monitorVars, clientOnly, directOpen, ipc_client, stats, shutdownSignal,
                   exitReason, bridgePc, stdinNext, stdinHeadTaken, childIn, childState, childEchoed, stdoutNext, stdoutHeadTaken,
                   userOut, errLines, stderrClosed>>

\* mutant of CountRequest: the bytes of the line are not counted
CountRequestNoBytes(st, input) ==
    [st EXCEPT !.total_requests = @ + 1]

\* stats.total_requests += 1; stats.bytes_transferred += input.len() as u64;
CountRequest(st, input) ==
    [st EXCEPT !.total_requests = @ + 1,
               !.bytes_transferred = @ + LineLen(input)]

\* The pending read_line on user stdin is polled when only the beginning of the
\* next line has arrived: it takes it out of the BufReader and stays pending.
StdinPartial ==
    /\ bridgePc = "select"
    /\ stdinNext <= MaxLines
    /\ ~stdinHeadTaken
    /\ stdinHeadTaken' = TRUE
    /\ stdinHeld' = TRUE
    /\ UNCHANGED <<monitorVars, clientOnly, directOpen, ipc_client, stats, shutdownSignal,
                   exitReason, bridgePc, stdinNext, childIn, childState,
                   childEchoed, stdoutNext, stdoutHeadTaken, stdoutHeld, userOut,
                   errLines, stderrClosed, sent, emitErr>>

\* branch 3: a line from user stdin: log_request, write_all + flush to the
\* child, then the counters.  The write fails when the child is gone.
StdinLine ==
    /\ bridgePc = "select"
    /\ stdinNext <= MaxLines
    /\ LET input == ReadLine(stdinNext, stdinHeadTaken, stdinHeld) IN
       /\ Emit(log_request(input))
       /\ IF AfterEmit(EmitResult) = "break"
          THEN /\ bridgePc' = "done"
               /\ exitReason' = "emit_failed"
               /\ UNCHANGED <<childIn, stats>>
          ELSE IF childState = "running"
               THEN /\ childIn' = Append(childIn, input)
                    /\ stats' = CountRequest(stats, input)
                    /\ UNCHANGED <<bridgePc, exitReason>>
               ELSE /\ bridgePc' = "done"
                    /\ exitReason' = "child_stdin_error"
                    /\ UNCHANGED <<childIn, stats>>
    /\ stdinNext' = stdinNext + 1
    /\ stdinHeadTaken' = FALSE
    /\ DropPending
    /\ UNCHANGED <<monitorVars, clientOnly, directOpen, ipc_client, shutdownSignal,
                   childState, childEchoed, stdoutNext, stdoutHeadTaken,
                   userOut, errLines, stderrClosed>>

\* branch 3, Ok((0, _)) => break: the user closed stdin, at a line boundary
StdinEof ==
    /\ bridgePc = "select"
    /\ ~stdinHeadTaken
    /\ bridgePc' = "done"
    /\ exitReason' = "stdin_eof"
    /\ DropPending
    /\ UNCHANGED <<monitorVars, clientOnly, directOpen, ipc_client, stats, shutdownSignal,
                   stdinNext, stdinHeadTaken, childIn, childState,
                   childEchoed, stdoutNext, stdoutHeadTaken, userOut, errLines, stderrClosed, sent, emitErr>>

\* The pending read_line on child stdout takes the beginning of the next line.
StdoutPartial ==
    /\ bridgePc = "select"
    /\ stdoutNext <= childEchoed
    /\ childIn[stdoutNext][2] = "full"
    /\ ~stdoutHeadTaken
    /\ stdoutHeadTaken' = TRUE
    /\ stdoutHeld' = TRUE
    /\ UNCHANGED <<monitorVars, clientOnly, directOpen, ipc_client, stats, shutdownSignal,
                   exitReason, bridgePc, stdinNext, stdinHeadTaken, stdinHeld,
                   childIn, childState, childEchoed, stdoutNext, userOut,
                   errLines, stderrClosed, sent, emitErr>>

\* branch 4: a line from child stdout: log_response, write_all + flush to user
\* stdout, then the counters.  The write fails when the reader of the proxy's
\* stdout is gone.
StdoutLine ==
    /\ bridgePc = "select"
    /\ stdoutNext <= childEchoed
    /\ \E write_ok \in BOOLEAN :
       LET output == IF childIn[stdoutNext][2] = "full"
                     THEN ReadLine(childIn[stdoutNext][1], stdoutHeadTaken, stdoutHeld)
                     ELSE childIn[stdoutNext]
       IN
       /\ Emit(log_response(output))
       /\ IF AfterEmit(EmitResult) = "break"
          THEN /\ bridgePc' = "done"
               /\ exitReason' = "emit_failed"
               /\ UNCHANGED <<userOut, stats>>
          ELSE IF write_ok
               THEN /\ userOut' = Append(userOut, output)
                    /\ stats' = [stats EXCEPT
                                   !.successful_requests = @ + 1,
                                   !.bytes_transferred = @ + LineLen(output)]
                    /\ UNCHANGED <<bridgePc, exitReason>>
               ELSE /\ bridgePc' = "done"
                    /\ exitReason' = "user_stdout_error"
                    /\ UNCHANGED <<userOut, stats>>
    /\ stdoutNext' = stdoutNext + 1
    /\ stdoutHeadTaken' = FALSE
    /\ DropPending
    /\ UNCHANGED <<monitorVars, clientOnly, directOpen, ipc_client, shutdownSignal,
                   stdinNext, stdinHeadTaken, childIn, childState,
                   childEchoed, errLines, stderrClosed>>

\* branch 4, Ok((0, _)) => break: the child closed its stdout by exiting
StdoutEof ==
    /\ bridgePc = "select"
    /\ childState # "running"
    /\ stdoutNext > childEchoed
    /\ bridgePc' = "done"
    /\ exitReason' = "stdout_closed"
    /\ DropPending
    /\ UNCHANGED <<monitorVars, clientOnly, directOpen, ipc_client, stats, shutdownSignal,
                   stdinNext, stdinHeadTaken, childIn, childState,
                   childEchoed, stdoutNext, stdoutHeadTaken, userOut, errLines, stderrClosed, sent, emitErr>>

\* branch 5: a line from child stderr: log_error and forward to user stderr
StderrLine ==
    /\ bridgePc = "select"
    /\ ~stderrClosed
    /\ errLines < MaxErrLines
    /\ errLines' = errLines + 1
    /\ Emit(log_error(errLines + 1))
    /\ DropPending
    /\ UNCHANGED <<monitorVars, clientOnly, directOpen, ipc_client, stats, shutdownSignal,
                   exitReason, bridgePc, stdinNext, stdinHeadTaken, childIn, childState, childEchoed, stdoutNext, stdoutHeadTaken,
                   userOut, stderrClosed>>

\* branch 5, Ok((0, _)) => debug!("Child stderr closed"): the loop goes on
StderrEof ==
    /\ bridgePc = "select"
    /\ stderrClosed
    /\ stdinHeld \/ stdoutHeld
    /\ DropPending
    /\ UNCHANGED <<monitorVars, clientOnly, directOpen, ipc_client, stats, shutdownSignal,
                   exitReason, bridgePc, stdinNext, stdinHeadTaken, childIn, childState, childEchoed, stdoutNext, stdoutHeadTaken,
                   userOut, errLines, stderrClosed, sent, emitErr>>

\* branch 6: status = child.wait() => failed_requests on failure, break
BridgeChildExit ==
    /\ bridgePc = "select"
    /\ childState # "running"
    /\ stats' = IF childState = "exited_fail"
                THEN [stats EXCEPT !.failed_requests = @ + 1]
                ELSE stats
    /\ bridgePc' = "done"
    /\ exitReason' = "child_exit"
    /\ DropPending
    /\ UNCHANGED <<monitorVars, clientOnly, directOpen, ipc_client, shutdownSignal,
                   stdinNext, stdinHeadTaken, childIn, childState,
                   childEchoed, stdoutNext, stdoutHeadTaken, userOut, errLines, stderrClosed, sent, emitErr>>

\* ------------------------------------------- the environment of the bridge
\* The child (cat) reads a line from its stdin and writes it to its stdout.
ChildEcho ==
    /\ childState = "running"
    /\ bridgePc # "done"
    /\ childEchoed < Len(childIn)
    /\ childEchoed' = childEchoed + 1
    /\ UNCHANGED <<monitorVars, clientOnly, directOpen, bridgePc, ipc_client, stats,
                   shutdownSignal, exitReason, stdinNext, stdinHeadTaken, stdinHeld,
                   childIn, childState, stdoutNext, stdoutHeadTaken,
                   stdoutHeld, userOut, errLines, stderrClosed, sent,
                   emitErr>>

ChildExits ==
    /\ childState = "running"
    /\ bridgePc \notin {"start", "done"}
    /\ childState' \in {"exited_ok", "exited_fail"}
    /\ stderrClosed' = TRUE
    /\ UNCHANGED <<monitorVars, clientOnly, directOpen, bridgePc, ipc_client, stats,
                   shutdownSignal, exitReason, stdinNext, stdinHeadTaken, stdinHeld,
                   childIn, childEchoed, stdoutNext, stdoutHeadTaken,
                   stdoutHeld, userOut, errLines, sent, emitErr>>

ChildClosesStderr ==
    /\ childState = "running"
    /\ bridgePc \notin {"start", "done"}
    /\ ~stderrClosed
    /\ stderrClosed' = TRUE
    /\ UNCHANGED <<monitorVars, clientOnly, directOpen, bridgePc, ipc_client, stats,
                   shutdownSignal, exitReason, stdinNext, stdinHeadTaken, stdinHeld,
                   childIn, childState, childEchoed, stdoutNext,
                   stdoutHeadTaken, stdoutHeld, userOut, errLines, sent,
                   emitErr>>

\* shutdown_tx.send(())
ShutdownBroadcast ==
    /\ ~shutdownSignal
    /\ bridgePc # "done"
    /\ shutdownSignal' = TRUE
    /\ UNCHANGED <<monitorVars, clientOnly, directOpen, bridgePc, ipc_client, stats,
                   exitReason, stdinNext, stdinHeadTaken, stdinHeld, childIn, childState, childEchoed, stdoutNext, stdoutHeadTaken,
                   stdoutHeld, userOut, errLines, stderrClosed, sent,
                   emitErr>>

\* A select! iteration that is not the shutdown branch.
OtherBranch ==
    \/ StatsTick
    \/ StdinLine
    \/ StdinEof
    \/ StdoutLine
    \/ StdoutEof
    \/ StderrLine
    \/ StderrEof
    \/ BridgeChildExit

BridgeNext ==
    \/ start_connect
    \/ start_send
    \/ new_with_buffered
    \/ BridgeShutdown
    \/ StatsTick
    \/ StdinPartial
    \/ StdinLine
    \/ StdinEof
    \/ StdoutPartial
    \/ StdoutLine
    \/ StdoutEof
    \/ StderrLine
    \/ StderrEof
    \/ BridgeChildExit
    \/ ChildEcho
    \/ ChildExits
    \/ ChildClosesStderr
    \/ ShutdownBroadcast
    \/ MonitorStop

\* The proxy makes its one connection at start: a monitor bound later is not
\* seen by it, so the monitor is either up from the beginning or never.
BridgeSpec == Init /\ [][BridgeNext]_vars

Next ==
    \/ send
    \/ sendResume
    \/ shutdown
    \/ WorkerShutdown
    \/ WorkerRecv
    \/ SleepElapsed
    \/ FlushSend
    \/ DelayElapses
    \/ MonitorStart
    \/ MonitorStop

Spec == Init /\ [][Next]_vars

\* send() called again and again after the tracked events: sustained traffic.
sendMore ==
    /\ nextId > MaxEvents
    /\ pendingSend = 0
    /\ ~shutdownSent
    /\ workerPc # "done"
    /\ Len(queue) < CHANNEL_CAPACITY
    /\ queue' = Append(queue, Later)
    /\ UNCHANGED <<buffer, client, reconnect_delay, delayElapsed, workerPc,
                   messages_to_send, shutdownSent, nextId, pendingSend, listening,
                   peerOpen, monitorStarts, delivered, dropped, connects>>
    /\ UNCHANGED <<bridgeVars, directOpen, monitorVars>>

NextLive == Next \/ sendMore

\* The worker task runs whenever one of its select! branches is ready, and time
\* passes; nothing obliges the caller to pause or the monitor to stay.
FairSpec ==
    /\ Init
    /\ [][NextLive]_vars
    /\ WF_vars(WorkerShutdown)
    /\ WF_vars(WorkerRecv)
    /\ WF_vars(SleepElapsed)
    /\ WF_vars(FlushSend)
    /\ WF_vars(DelayElapses)
    /\ WF_vars(sendResume)

\* ------------------------------------------------------------ the monitor
\* App (mcp-monitor/src/app.rs) is the record app; every method of App is an
\* operator from the record before to the record after.  Indices are 0-based
\* as in the source; logs[i] of the source is s.logs[i + 1] here.  Strings are
\* sequences of characters.  The fields detail_word_wrap and
\* detail_scroll_offset only drive the rendering of the detail overlay and are
\* left out.

\* name of the proxy with the given id, as its ProxyStarted carries it
ProxyName(p) == IF p = "p1" THEN <<"E", "r">> ELSE <<"d">>

\* ProxyStats of a proxy: the id and one counter stand for the record.
ProxyStatsOf(p, n) == [proxy_id |-> p, total_requests |-> n]

ProxyInfoOf(p) == [id |-> p, name |-> ProxyName(p), stats |-> ProxyStatsOf(p, 0)]

\* The log entries proxies send, one of every level, from both proxies, with
\* upper and lower case in the messages.  The id is given on arrival (it
\* stands for the Uuid of the entry).
LogEntries ==
    { [level |-> "Request",  message |-> <<"o", "k">>, proxy_id |-> "p2"],
      [level |-> "Response", message |-> <<"o", "k">>, proxy_id |-> "p1"],
      [level |-> "Error",    message |-> <<"e">>,      proxy_id |-> "p1"],
      [level |-> "Warning",  message |-> <<"e">>,      proxy_id |-> "p2"],
      [level |-> "Info",     message |-> <<"R">>,      proxy_id |-> "p2"],
      [level |-> "Debug",    message |-> <<"o", "k">>, proxy_id |-> "p1"] }

\* The entries the searching user's proxies send: for the query "r" the first
\* matches by its level only, the second by its message only, the third by the
\* name of its proxy only, and only while that proxy is known.
SearchLogEntries == {e \in LogEntries : e.level \in {"Request", "Info", "Debug"}}

WithId(e, n) ==
    [id |-> n, level |-> e.level, message |-> e.message, proxy_id |-> e.proxy_id]

\* format!("{:?}", log.level)
LevelName(level) ==
    CASE level = "Debug"    -> <<"D", "e", "b", "u", "g">>
      [] level = "Info"     -> <<"I", "n", "f", "o">>
      [] level = "Warning"  -> <<"W", "a", "r", "n", "i", "n", "g">>
      [] level = "Error"    -> <<"E", "r", "r", "o", "r">>
      [] level = "Request"  -> <<"R", "e", "q", "u", "e", "s", "t">>
      [] level = "Response" -> <<"R", "e", "s", "p", "o", "n", "s", "e">>

\* char::to_lowercase on the characters of the model
LowerChar(c) ==
    CASE c = "D" -> "d" [] c = "E" -> "e" [] c = "I" -> "i"
      [] c = "R" -> "r" [] c = "W" -> "w" [] OTHER -> c

\* mutant: no case folding
to_lowercase_identity(str) == str

\* str::to_lowercase
to_lowercase(str) == [i \in 1..Len(str) |-> LowerChar(str[i])]

\* str::contains: needle is a contiguous part of hay
contains(hay, needle) ==
    \E i \in 0..(Len(hay) - Len(needle)) : SubSeq(hay, i + 1, i + Len(needle)) = needle

\* UTF-8 length of a character: "eacute" stands for a two-byte character.
Utf8Len(c) == IF c = "eacute" THEN 2 ELSE 1

RECURSIVE ByteLen(_)
\* String::len: the length in bytes
ByteLen(str) == IF str = <<>> THEN 0 ELSE Utf8Len(Head(str)) + ByteLen(Tail(str))

\* The number of characters before byte index idx when idx is a character
\* boundary of str (str::is_char_boundary), NoIndex when it is not.
CharsBefore(str, idx) ==
    IF \E k \in 0..Len(str) : ByteLen(SubSeq(str, 1, k)) = idx
    THEN CHOOSE k \in 0..Len(str) : ByteLen(SubSeq(str, 1, k)) = idx
    ELSE NoIndex

\* String::insert(idx, c) panics unless idx is on a character boundary
InsertPanics(str, idx) == CharsBefore(str, idx) = NoIndex

\* String::insert(idx, c)
StringInsert(str, idx, c) ==
    LET k == CharsBefore(str, idx)
    IN SubSeq(str, 1, k) \o <<c>> \o SubSeq(str, k + 1, Len(str))

\* String::remove(idx) panics when idx is not the start of a character
RemovePanics(str, idx) ==
    CharsBefore(str, idx) = NoIndex \/ CharsBefore(str, idx) = Len(str)

\* String::remove(idx)
StringRemove(str, idx) ==
    LET k == CharsBefore(str, idx)
    IN SubSeq(str, 1, k) \o SubSeq(str, k + 2, Len(str))

\* usize::saturating_sub
saturating_sub(a, b) == IF a > b THEN a - b ELSE 0

\* mutant: the Errors tab without the warnings
matches_tab_no_warning(tab, level) ==
    CASE tab = "All"      -> TRUE
      [] tab = "Messages" -> level \in {"Request", "Response"}
      [] tab = "Errors"   -> level \in {"Error"}
      [] tab = "System"   -> level \in {"Info", "Debug"}

\* the match on the tab in get_filtered_logs and update_search_results
matches_tab(tab, level) ==
    CASE tab = "All"      -> TRUE
      [] tab = "Messages" -> level \in {"Request", "Response"}
      [] tab = "Errors"   -> level \in {"Error", "Warning"}
      [] tab = "System"   -> level \in {"Info", "Debug"}

\* the proxy filter of the same three methods
matches_proxy(s, log) == s.selected_proxy = NoProxy \/ log.proxy_id = s.selected_proxy

\* 0-based indices, ascending, of the logs that pass the proxy and tab filter
FilteredIndices(s, tab) ==
    LET Keep(i) == matches_proxy(s, s.logs[i + 1]) /\ matches_tab(tab, s.logs[i + 1].level)
    IN SelectSeq([i \in 1..Len(s.logs) |-> i - 1], Keep)

\* App::get_filtered_logs
get_filtered_logs(s) ==
    LET idx == FilteredIndices(s, s.active_tab)
    IN [k \in 1..Len(idx) |-> s.logs[idx[k] + 1]]

\* App::get_tab_log_count: its own copy of the two filters, then count()
get_tab_log_count(s, tab) ==
    LET Keep(log) ==
            IF s.selected_proxy # NoProxy /\ log.proxy_id # s.selected_proxy
            THEN FALSE
            ELSE CASE tab = "All"      -> TRUE
                   [] tab = "Messages" -> log.level \in {"Request", "Response"}
                   [] tab = "Errors"   -> log.level \in {"Error", "Warning"}
                   [] tab = "System"   -> log.level \in {"Info", "Debug"}
    IN Len(SelectSeq(s.logs, Keep))

\* The indices into logs behind get_search_filtered_logs: in the search modes
\* the stored results that logs.get(index) still finds, else the filtered view.
SearchFilteredIndices(s) ==
    IF s.navigation_mode \in {"Search", "SearchResults"}
    THEN SelectSeq(s.search_results, LAMBDA i : i < Len(s.logs))
    ELSE FilteredIndices(s, s.active_tab)

\* App::get_search_filtered_logs
get_search_filtered_logs(s) ==
    LET idx == SearchFilteredIndices(s)
    IN [k \in 1..Len(idx) |-> s.logs[idx[k] + 1]]

\* App::save_tab_state
save_tab_state(s) ==
    [s EXCEPT !.tab_states[s.active_tab] =
        [selected_index |-> s.selected_index,
         viewport_offset |-> s.viewport_offset,
         navigation_mode |-> s.navigation_mode]]

\* handle_event, AppEvent::ProxyConnected(info)
handle_proxy_connected(s, info) ==
    [s EXCEPT !.proxies = (info.id :> info) @@ s.proxies]

\* mutant: the filter is kept when its proxy goes away
handle_proxy_disconnected_keeps_filter(s, id) ==
    [s EXCEPT !.proxies = [p \in DOMAIN s.proxies \ {id} |-> s.proxies[p]]]

\* handle_event, AppEvent::ProxyDisconnected(id)
handle_proxy_disconnected(s, id) ==
    [s EXCEPT !.proxies = [p \in DOMAIN s.proxies \ {id} |-> s.proxies[p]],
              !.selected_proxy = IF s.selected_proxy = id THEN NoProxy ELSE @]

\* mutant: drain the newest entries
drain_newest(logs) == SubSeq(logs, 1, MAX_LOGS)

\* self.logs.drain(0..self.logs.len() - MAX_LOGS)
drain_oldest(logs) == SubSeq(logs, Len(logs) - MAX_LOGS + 1, Len(logs))

\* mutant: the last index of the whole log instead of the filtered view
follow_latest_unfiltered(s) ==
    IF s.navigation_mode = "Follow" /\ Len(s.logs) > 0
    THEN [s EXCEPT !.selected_index = Len(s.logs) - 1]
    ELSE s

\* mutant: select the latest log in every mode
follow_latest_any_mode(s) ==
    LET n == Len(get_search_filtered_logs(s))
    IN IF n > 0 THEN [s EXCEPT !.selected_index = n - 1] ELSE s

\* handle_event, NewLogEntry: "In follow mode, automatically select the latest log"
follow_latest(s) ==
    LET n == Len(get_search_filtered_logs(s))
    IN IF s.navigation_mode = "Follow" /\ n > 0
       THEN [s EXCEPT !.selected_index = n - 1]
       ELSE s

\* handle_event, AppEvent::NewLogEntry(entry).  The amount subtracted from the
\* saved indices is self.logs.len() - MAX_LOGS evaluated after the drain.
handle_new_log_entry(s, entry) ==
    LET pushed == Append(s.logs, entry)
        over == Len(pushed) > MAX_LOGS
        logs1 == IF over THEN drain_oldest(pushed) ELSE pushed
        k == Len(logs1) - MAX_LOGS
        Adjust(state) ==
            [state EXCEPT
                !.selected_index = IF @ > 0 THEN saturating_sub(@, k) ELSE @,
                !.viewport_offset = IF @ > 0 THEN saturating_sub(@, k) ELSE @]
        tabs1 == IF over THEN [t \in TabType |-> Adjust(s.tab_states[t])]
                 ELSE s.tab_states
    IN follow_latest([s EXCEPT !.logs = logs1, !.tab_states = tabs1])

\* mutant: a proxy entry is created for unknown stats
handle_stats_update_upsert(s, new_stats) ==
    IF new_stats.proxy_id \in DOMAIN s.proxies
    THEN [s EXCEPT !.proxies[new_stats.proxy_id].stats = new_stats]
    ELSE [s EXCEPT !.proxies =
            (new_stats.proxy_id :> [ProxyInfoOf(new_stats.proxy_id) EXCEPT !.stats = new_stats]) @@ @]

\* handle_event, AppEvent::StatsUpdate(stats)
handle_stats_update(s, new_stats) ==
    IF new_stats.proxy_id \in DOMAIN s.proxies
    THEN [s EXCEPT !.proxies[new_stats.proxy_id].stats = new_stats]
    ELSE s

\* The AppEvent values: <<kind, payload>>.
ProxyConnected(info) == <<"ProxyConnected", info>>

ProxyDisconnected(id) == <<"ProxyDisconnected", id>>

NewLogEntry(entry) == <<"NewLogEntry", entry>>

StatsUpdate(new_stats) == <<"StatsUpdate", new_stats>>

\* App::handle_event
handle_event(s, event) ==
    CASE event[1] = "ProxyConnected"    -> handle_proxy_connected(s, event[2])
      [] event[1] = "ProxyDisconnected" -> handle_proxy_disconnected(s, event[2])
      [] event[1] = "NewLogEntry"       -> handle_new_log_entry(s, event[2])
      [] event[1] = "StatsUpdate"       -> handle_stats_update(s, event[2])

\* App::clear_logs
clear_logs(s) ==
    [s EXCEPT !.logs = << >>,
              !.selected_index = 0,
              !.viewport_offset = 0,
              !.navigation_mode = "Follow",
              !.tab_states = [t \in TabType |->
                                [selected_index |-> 0, viewport_offset |-> 0,
                                 navigation_mode |-> "Follow"]]]

\* if self.navigation_mode == NavigationMode::Follow { ... = Navigate }
leave_follow(s) ==
    IF s.navigation_mode = "Follow" THEN [s EXCEPT !.navigation_mode = "Navigate"] ELSE s

\* mutant of scroll_up: Follow is left only when the selection moves
scroll_up_when_moved(s) ==
    IF s.selected_index > 0
    THEN save_tab_state([leave_follow(s) EXCEPT !.selected_index = @ - 1])
    ELSE s

\* App::scroll_up
scroll_up(s) ==
    LET s1 == leave_follow(s)
    IN IF s1.selected_index > 0
       THEN save_tab_state([s1 EXCEPT !.selected_index = @ - 1])
       ELSE s1

\* App::scroll_down
scroll_down(s) ==
    LET s1 == leave_follow(s)
        filtered_count == Len(get_search_filtered_logs(s1))
    IN IF filtered_count > 0 /\ s1.selected_index < filtered_count - 1
       THEN save_tab_state([s1 EXCEPT !.selected_index = @ + 1])
       ELSE s1

\* App::page_up
page_up(s) ==
    save_tab_state([leave_follow(s) EXCEPT !.selected_index = saturating_sub(@, PAGE_SIZE)])

\* App::page_down
page_down(s) ==
    LET s1 == leave_follow(s)
        filtered_count == Len(get_search_filtered_logs(s1))
    IN IF filtered_count > 0
       THEN save_tab_state(
              [s1 EXCEPT !.selected_index = Min(@ + PAGE_SIZE, filtered_count - 1)])
       ELSE s1

\* App::scroll_to_top
scroll_to_top(s) ==
    save_tab_state([leave_follow(s) EXCEPT !.selected_index = 0, !.viewport_offset = 0])

\* App::scroll_to_bottom
scroll_to_bottom(s) ==
    LET s1 == leave_follow(s)
        n == Len(get_search_filtered_logs(s1))
    IN IF n > 0 THEN save_tab_state([s1 EXCEPT !.selected_index = n - 1]) ELSE s1

\* mutant of exit_search_mode: the search is left for Follow
exit_search_mode_to_follow(s) ==
    LET s1 == [s EXCEPT !.navigation_mode = "Follow",
                        !.search_query = << >>,
                        !.search_results = << >>,
                        !.search_cursor = 0]
        n == Len(get_filtered_logs(s1))
    IN save_tab_state(IF n > 0 THEN [s1 EXCEPT !.selected_index = n - 1] ELSE s1)

\* App::exit_search_mode
exit_search_mode(s) ==
    LET s1 == [s EXCEPT !.navigation_mode = "Navigate",
                        !.search_query = << >>,
                        !.search_results = << >>,
                        !.search_cursor = 0]
        n == Len(get_filtered_logs(s1))
    IN save_tab_state(IF n > 0 THEN [s1 EXCEPT !.selected_index = n - 1] ELSE s1)

\* App::exit_navigation_mode
exit_navigation_mode(s) ==
    IF s.navigation_mode \in {"Search", "SearchResults"}
    THEN exit_search_mode(s)
    ELSE LET s1 == [s EXCEPT !.navigation_mode = "Follow"]
             n == Len(get_search_filtered_logs(s1))
         IN IF n > 0 THEN save_tab_state([s1 EXCEPT !.selected_index = n - 1]) ELSE s1

\* App::switch_focus_to_proxy_list
switch_focus_to_proxy_list(s) == [s EXCEPT !.focus_area = "ProxyList"]

\* App::switch_focus_to_logs
switch_focus_to_logs(s) == [s EXCEPT !.focus_area = "LogView"]

\* Ordering of the characters that occur in proxy names (their code points).
CharCode(c) == CASE c = "E" -> 69 [] c = "d" -> 100 [] c = "r" -> 114 [] OTHER -> 0

RECURSIVE StrLess(_, _)
\* a.name.cmp(&b.name) == Less
StrLess(a, b) ==
    IF b = << >> THEN FALSE
    ELSE IF a = << >> THEN TRUE
    ELSE IF a[1] = b[1] THEN StrLess(Tail(a), Tail(b))
    ELSE CharCode(a[1]) < CharCode(b[1])

RECURSIVE SortByName(_, _)
\* the ids of the given proxies in the order of their names (the names of the
\* model are distinct, so the order sort_by gives is determined)
SortByName(s, ids) ==
    IF ids = {} THEN << >>
    ELSE LET first == CHOOSE p \in ids :
                        \A q \in ids \ {p} : StrLess(s.proxies[p].name, s.proxies[q].name)
         IN <<first>> \o SortByName(s, ids \ {first})

\* App::get_proxy_list, as the ids of the proxies listed
get_proxy_list(s) == SortByName(s, DOMAIN s.proxies)

\* App::proxy_scroll_up
proxy_scroll_up(s) ==
    IF s.proxy_selected_index > 0 THEN [s EXCEPT !.proxy_selected_index = @ - 1] ELSE s

\* App::proxy_scroll_down
proxy_scroll_down(s) ==
    LET proxy_count == Len(get_proxy_list(s))
    IN IF proxy_count > 0 /\ s.proxy_selected_index < proxy_count - 1
       THEN [s EXCEPT !.proxy_selected_index = @ + 1]
       ELSE s

\* "Reset log selection to latest when changing proxy filter"
reset_to_latest(s) ==
    LET s1 == [s EXCEPT !.navigation_mode = "Follow"]
        n == Len(get_filtered_logs(s1))
    IN save_tab_state([s1 EXCEPT !.selected_index = IF n > 0 THEN n - 1 ELSE 0,
                                 !.viewport_offset = 0])

\* mutant: the filter is set to a proxy whatever the list holds
select_current_proxy_any(s) ==
    reset_to_latest(
        [s EXCEPT !.selected_proxy =
            IF s.proxy_selected_index = 0 THEN "p1" ELSE "p2"])

\* App::select_current_proxy
select_current_proxy(s) ==
    LET proxy_list == get_proxy_list(s)
    IN IF s.proxy_selected_index < Len(proxy_list)
       THEN reset_to_latest(
              [s EXCEPT !.selected_proxy = proxy_list[s.proxy_selected_index + 1]])
       ELSE s

\* App::clear_proxy_selection
clear_proxy_selection(s) == reset_to_latest([s EXCEPT !.selected_proxy = NoProxy])

\* mutant of prepare_viewport: the selection is not brought into the view
prepare_viewport_no_clamp(s, height) ==
    LET filtered_count == Len(get_search_filtered_logs(s))
    IN IF filtered_count = 0
       THEN [s EXCEPT !.selected_index = 0, !.viewport_offset = 0]
       ELSE IF height > 0
       THEN IF s.selected_index < s.viewport_offset
            THEN [s EXCEPT !.viewport_offset = s.selected_index]
            ELSE IF s.selected_index >= s.viewport_offset + height
            THEN [s EXCEPT !.viewport_offset = saturating_sub(s.selected_index, height - 1)]
            ELSE s
       ELSE s

\* App::prepare_viewport
prepare_viewport(s, height) ==
    LET filtered_count == Len(get_search_filtered_logs(s))
        s1 == IF s.selected_index >= filtered_count
              THEN [s EXCEPT !.selected_index = saturating_sub(filtered_count, 1)]
              ELSE s
    IN IF filtered_count = 0
       THEN [s EXCEPT !.selected_index = 0, !.viewport_offset = 0]
       ELSE IF height > 0
       THEN IF s1.selected_index < s1.viewport_offset
            THEN [s1 EXCEPT !.viewport_offset = s1.selected_index]
            ELSE IF s1.selected_index >= s1.viewport_offset + height
            THEN [s1 EXCEPT !.viewport_offset = saturating_sub(s1.selected_index, height - 1)]
            ELSE s1
       ELSE s1

\* App::get_visible_logs
get_visible_logs(s, height) ==
    LET filtered_logs == get_search_filtered_logs(s)
        start == Min(s.viewport_offset, saturating_sub(Len(filtered_logs), 1))
        end == Min(start + height, Len(filtered_logs))
    IN IF filtered_logs = << >> \/ height = 0
       THEN << >>
       ELSE SubSeq(filtered_logs, start + 1, end)

\* App::get_relative_selection, NoIndex for None
get_relative_selection(s, height) ==
    LET filtered_logs == get_search_filtered_logs(s)
        end == Min(s.viewport_offset + height, Len(filtered_logs))
    IN IF filtered_logs = << >> THEN NoIndex
       ELSE IF s.selected_index >= s.viewport_offset /\ s.selected_index < end
       THEN s.selected_index - s.viewport_offset
       ELSE NoIndex

\* mutant: the restored indices are the ones of the tab left
switch_tab_keeps_indices(s, tab) ==
    LET s1 == [save_tab_state(s) EXCEPT !.active_tab = tab]
        filtered_count == Len(get_filtered_logs(s1))
    IN IF filtered_count = 0
       THEN [s1 EXCEPT !.selected_index = 0, !.viewport_offset = 0]
       ELSE IF s1.selected_index >= filtered_count
       THEN [s1 EXCEPT !.selected_index = filtered_count - 1]
       ELSE s1

\* App::switch_tab
switch_tab(s, tab) ==
    LET saved == save_tab_state(s)
        state == saved.tab_states[tab]
        s1 == [saved EXCEPT !.active_tab = tab,
                            !.selected_index = state.selected_index,
                            !.viewport_offset = state.viewport_offset,
                            !.navigation_mode = state.navigation_mode]
        filtered_count == Len(get_filtered_logs(s1))
    IN IF filtered_count = 0
       THEN [s1 EXCEPT !.selected_index = 0, !.viewport_offset = 0]
       ELSE IF s1.selected_index >= filtered_count
       THEN [s1 EXCEPT !.selected_index = filtered_count - 1]
       ELSE s1

\* App::next_tab
next_tab(s) ==
    switch_tab(s, CASE s.active_tab = "All"      -> "Messages"
                    [] s.active_tab = "Messages" -> "Errors"
                    [] s.active_tab = "Errors"   -> "System"
                    [] s.active_tab = "System"   -> "All")

\* App::prev_tab
prev_tab(s) ==
    switch_tab(s, CASE s.active_tab = "All"      -> "System"
                    [] s.active_tab = "Messages" -> "All"
                    [] s.active_tab = "Errors"   -> "Messages"
                    [] s.active_tab = "System"   -> "Errors")

\* App::select_log_at_cursor
select_log_at_cursor(s) ==
    LET idx == SearchFilteredIndices(s)
    IN IF idx # << >> /\ s.selected_index < Len(idx)
       THEN [s EXCEPT !.selected_log_index = idx[s.selected_index + 1]]
       ELSE s

\* App::show_selected_log_detail
show_selected_log_detail(s) ==
    IF /\ s.selected_log_index # NoIndex
       /\ s.selected_log_index < Len(s.logs)
       /\ s.logs[s.selected_log_index + 1].level \in {"Request", "Response"}
    THEN [s EXCEPT !.show_detail_view = TRUE]
    ELSE s

\* App::hide_detail_view
hide_detail_view(s) ==
    [s EXCEPT !.show_detail_view = FALSE, !.selected_log_index = NoIndex]

\* App::enter_search_mode
enter_search_mode(s) ==
    [s EXCEPT !.navigation_mode = "Search",
              !.search_query = << >>,
              !.search_results = << >>,
              !.search_cursor = 0,
              !.selected_index = 0,
              !.viewport_offset = 0]

\* App::confirm_search_results
confirm_search_results(s) ==
    save_tab_state([s EXCEPT !.navigation_mode = "SearchResults", !.search_cursor = 0])

\* the three matches of update_search_results on one log
matches_query(s, log, query_lower) ==
    LET message_matches == contains(to_lowercase(log.message), query_lower)
        proxy_name_matches ==
            IF log.proxy_id \in DOMAIN s.proxies
            THEN contains(to_lowercase(s.proxies[log.proxy_id].name), query_lower)
            ELSE FALSE
        level_matches == contains(to_lowercase(LevelName(log.level)), query_lower)
    IN message_matches \/ proxy_name_matches \/ level_matches

\* App::update_search_results
update_search_results(s) ==
    IF s.search_query = << >>
    THEN [s EXCEPT !.search_results = << >>, !.selected_index = 0, !.viewport_offset = 0]
    ELSE LET query_lower == to_lowercase(s.search_query)
             Keep(i) == /\ matches_proxy(s, s.logs[i + 1])
                        /\ matches_tab(s.active_tab, s.logs[i + 1].level)
                        /\ matches_query(s, s.logs[i + 1], query_lower)
         IN [s EXCEPT !.search_results = SelectSeq([i \in 1..Len(s.logs) |-> i - 1], Keep),
                      !.selected_index = 0,
                      !.viewport_offset = 0]

\* App::search_input_char, when the insert does not panic
search_input_char(s, c) ==
    IF s.navigation_mode = "Search"
    THEN update_search_results(
           [s EXCEPT !.search_query = StringInsert(@, s.search_cursor, c),
                     !.search_cursor = @ + 1])
    ELSE s

\* App::search_backspace, when the remove does not panic
search_backspace(s) ==
    IF s.navigation_mode = "Search" /\ s.search_cursor > 0
    THEN update_search_results(
           [s EXCEPT !.search_query = StringRemove(@, s.search_cursor - 1),
                     !.search_cursor = @ - 1])
    ELSE s

\* App::search_delete, when the remove does not panic
search_delete(s) ==
    IF s.navigation_mode = "Search" /\ s.search_cursor < ByteLen(s.search_query)
    THEN update_search_results(
           [s EXCEPT !.search_query = StringRemove(@, s.search_cursor)])
    ELSE s

\* App::search_cursor_left
search_cursor_left(s) ==
    IF s.navigation_mode = "Search" /\ s.search_cursor > 0
    THEN [s EXCEPT !.search_cursor = @ - 1] ELSE s

\* App::search_cursor_right
search_cursor_right(s) ==
    IF s.navigation_mode = "Search" /\ s.search_cursor < ByteLen(s.search_query)
    THEN [s EXCEPT !.search_cursor = @ + 1] ELSE s

\* App::search_cursor_home
search_cursor_home(s) ==
    IF s.navigation_mode = "Search" THEN [s EXCEPT !.search_cursor = 0] ELSE s

\* App::search_cursor_end
search_cursor_end(s) ==
    IF s.navigation_mode = "Search"
    THEN [s EXCEPT !.search_cursor = ByteLen(s.search_query)] ELSE s

\* ---------------------------------------------------------------- run_app
\* A key press: the KeyCode, the character of KeyCode::Char, and whether
\* KeyModifiers::CONTROL is held.
Key(code, c, ctrl) == [code |-> code, c |-> c, ctrl |-> ctrl]

\* Characters the user types into the search query.
SearchChars == {"R", "eacute"}

\* Characters with an action of their own in the main view.
CommandChars == {"q", "c", "r", "/", "?", "1", "2", "3", "4"}

Keys ==
    {Key(code, "", FALSE) :
        code \in {"Esc", "Backspace", "Delete", "Left", "Right", "Home", "End", "Up",
                  "Down", "PageUp", "PageDown", "Enter", "Tab", "BackTab"}}
    \cup {Key("Char", c, FALSE) : c \in SearchChars \cup CommandChars}
    \cup {Key("Char", "c", TRUE)}

\* mutant of DispatchMode: an open overlay does not take the keys
DispatchModeNoOverlay(s) ==
    IF s.navigation_mode = "Search" THEN "search" ELSE "main"

\* The branch of the key dispatch of run_app that the key is handled in.
DispatchMode(s) ==
    IF s.show_help_dialog THEN "help"
    ELSE IF s.show_detail_view THEN "detail"
    ELSE IF s.navigation_mode = "Search" THEN "search"
    ELSE "main"

\* the key ends the loop: KeyCode::Char('q') => break, Ctrl-C => break
KeyQuits(s, key) ==
    /\ DispatchMode(s) = "main"
    /\ key.code = "Char"
    /\ key.c = "q" \/ (key.c = "c" /\ key.ctrl)

\* the key makes a String method of the search input panic
KeyPanics(s, key) ==
    /\ DispatchMode(s) = "search"
    /\ \/ key.code = "Char" /\ InsertPanics(s.search_query, s.search_cursor)
       \/ /\ key.code = "Backspace"
          /\ s.search_cursor > 0
          /\ RemovePanics(s.search_query, s.search_cursor - 1)
       \/ /\ key.code = "Delete"
          /\ s.search_cursor < ByteLen(s.search_query)
          /\ RemovePanics(s.search_query, s.search_cursor)

\* the match on key.code while the help dialog is shown
handle_key_help(s, key) ==
    IF key.code = "Esc" \/ (key.code = "Char" /\ key.c = "?")
    THEN [s EXCEPT !.show_help_dialog = FALSE]
    ELSE s

\* the match on key.code while the detail view is shown
handle_key_detail(s, key) ==
    IF key.code = "Esc" THEN hide_detail_view(s) ELSE s

\* the match on key.code in Search mode
handle_key_search(s, key) ==
    CASE key.code = "Esc"       -> exit_search_mode(s)
      [] key.code = "Char"      -> search_input_char(s, key.c)
      [] key.code = "Backspace" -> search_backspace(s)
      [] key.code = "Delete"    -> search_delete(s)
      [] key.code = "Left"      -> search_cursor_left(s)
      [] key.code = "Right"     -> search_cursor_right(s)
      [] key.code = "Home"      -> search_cursor_home(s)
      [] key.code = "End"       -> search_cursor_end(s)
      [] key.code = "Up"        -> scroll_up(s)
      [] key.code = "Down"      -> scroll_down(s)
      [] key.code = "PageUp"    -> page_up(s)
      [] key.code = "PageDown"  -> page_down(s)
      [] key.code = "Enter"     -> confirm_search_results(s)
      [] OTHER                  -> s

\* the match on key.code in the main view
handle_key_main(s, key) ==
    LET logview == s.focus_area = "LogView"
    IN CASE key.code = "Char" /\ key.c = "c" -> clear_logs(s)
         [] key.code = "Char" /\ key.c = "1" -> switch_tab(s, "All")
         [] key.code = "Char" /\ key.c = "2" -> switch_tab(s, "Messages")
         [] key.code = "Char" /\ key.c = "3" -> switch_tab(s, "Errors")
         [] key.code = "Char" /\ key.c = "4" -> switch_tab(s, "System")
         [] key.code = "Char" /\ key.c = "/" ->
                IF logview THEN enter_search_mode(s) ELSE s
         [] key.code = "Char" /\ key.c = "?" -> [s EXCEPT !.show_help_dialog = TRUE]
         [] key.code = "Left"     -> switch_focus_to_proxy_list(s)
         [] key.code = "Right"    -> switch_focus_to_logs(s)
         [] key.code = "Up"       -> IF logview THEN scroll_up(s) ELSE proxy_scroll_up(s)
         [] key.code = "Down"     -> IF logview THEN scroll_down(s) ELSE proxy_scroll_down(s)
         [] key.code = "PageUp"   -> IF logview THEN page_up(s) ELSE s
         [] key.code = "PageDown" -> IF logview THEN page_down(s) ELSE s
         [] key.code = "Home"     -> IF logview THEN scroll_to_top(s) ELSE s
         [] key.code = "End"      -> IF logview THEN scroll_to_bottom(s) ELSE s
         [] key.code = "Esc"      ->
                IF logview THEN exit_navigation_mode(s) ELSE clear_proxy_selection(s)
         [] key.code = "Tab"      -> next_tab(s)
         [] key.code = "BackTab"  -> prev_tab(s)
         [] key.code = "Enter"    ->
                IF logview THEN show_selected_log_detail(select_log_at_cursor(s))
                ELSE select_current_proxy(s)
         [] OTHER                 -> s

\* the key dispatch of run_app for a key that neither quits nor panics
handle_key(s, key) ==
    CASE DispatchMode(s) = "help"   -> handle_key_help(s, key)
      [] DispatchMode(s) = "detail" -> handle_key_detail(s, key)
      [] DispatchMode(s) = "search" -> handle_key_search(s, key)
      [] DispatchMode(s) = "main"   -> handle_key_main(s, key)

\* Heights of the log area that terminal.draw passes to prepare_viewport.
ViewHeights == 0..MaxHeight

\* terminal.draw(|f| ui::draw(f, &mut app)): draw_logs prepares the viewport
Draw ==
    /\ uiState = "draw"
    /\ \E height \in ViewHeights : app' = prepare_viewport(app, height)
    /\ uiState' = "poll"
    /\ UNCHANGED <<arrived, keys, readerVars>>
    /\ UNCHANGED <<clientVars, bridgeVars, directOpen, ipcVars, pipeVars>>

\* No limit on the number of key presses.
Unlimited == MaxKeys + 1

\* event::poll(timeout) returns true and event::read gives a key press, one
\* of the given keys; at most limit keys are pressed
Press(keyset, limit) ==
    /\ uiState = "poll"
    /\ keys < limit
    /\ keys' = IF limit = Unlimited THEN keys ELSE keys + 1
    /\ \E key \in keyset :
          /\ (DispatchMode(app) = "search" /\ key.code = "Char")
                => (key.c \in SearchChars /\ Len(app.search_query) < MaxQuery)
          /\ IF KeyQuits(app, key)
             THEN uiState' = "quit" /\ app' = app
             ELSE IF KeyPanics(app, key)
             THEN uiState' = "panicked" /\ app' = app
             ELSE uiState' = "events" /\ app' = handle_key(app, key)
    /\ UNCHANGED <<arrived, readerVars>>
    /\ UNCHANGED <<clientVars, bridgeVars, directOpen, ipcVars, pipeVars>>

\* the user has the whole keyboard
KeyPress == Press(Keys, MaxKeys)

\* Keys of a user who only chooses what to look at: tab and proxy filter.
ViewKeys ==
    {Key(code, "", FALSE) :
        code \in {"Esc", "Left", "Up", "Down", "Enter"}}
    \cup {Key("Char", c, FALSE) : c \in {"1", "2", "3", "4"}}

\* the user chooses what to look at
ViewKeyPress == Press(ViewKeys, MaxKeys)

\* event::poll(timeout) returns false, or the event is not a key press
PollTimeout ==
    /\ uiState = "poll"
    /\ uiState' = "events"
    /\ UNCHANGED <<app, arrived, keys, readerVars>>
    /\ UNCHANGED <<clientVars, bridgeVars, directOpen, ipcVars, pipeVars>>

\* the user presses q in the main view
QuitKey ==
    /\ uiState = "poll"
    /\ KeyQuits(app, Key("Char", "q", FALSE))
    /\ uiState' = "quit"
    /\ UNCHANGED <<app, arrived, keys, readerVars>>
    /\ UNCHANGED <<clientVars, bridgeVars, directOpen, ipcVars, pipeVars>>

\* The event as the proxy built it: a log entry carries its own unique id,
\* here its arrival number.
Identified(event) ==
    IF event[1] = "NewLogEntry"
    THEN NewLogEntry(WithId(event[2], arrived + 1))
    ELSE event

\* app.handle_event(event) and the history of it
Apply(c, event) ==
    /\ app' = handle_event(app, Identified(event))
    /\ arrived' = IF event[1] = "NewLogEntry" THEN arrived + 1 ELSE arrived
    /\ applied' = Append(applied, <<c, event>>)

\* The events proxies can cause with the given log entries.
AppEvents(entries) ==
    {ProxyConnected(ProxyInfoOf(p)) : p \in ProxyIds}
    \cup {ProxyDisconnected(p) : p \in ProxyIds}
    \cup {NewLogEntry(e) : e \in entries}

\* while let Ok(event) = event_rx.try_recv() { app.handle_event(event) }, for
\* the UI task on its own: the queue holds whatever the readers have put there.
Handle(events) ==
    /\ uiState = "events"
    /\ \E event \in events :
          /\ app' = handle_event(app, Identified(event))
          /\ event[1] = "NewLogEntry" => arrived < MaxArrived
          /\ arrived' = IF event[1] = "NewLogEntry" THEN arrived + 1 ELSE arrived
    /\ UNCHANGED <<uiState, keys, readerVars>>
    /\ UNCHANGED <<clientVars, bridgeVars, directOpen, ipcVars, pipeVars>>

\* events of the proxies of the searching user
HandleAnyEvent == Handle(AppEvents(SearchLogEntries))

\* try_recv returns Err(Empty): the loop goes back to drawing
EventsDone ==
    /\ uiState = "events"
    /\ event_rx = << >>
    /\ uiState' = "draw"
    /\ UNCHANGED <<app, arrived, keys, readerVars>>
    /\ UNCHANGED <<clientVars, bridgeVars, directOpen, ipcVars, pipeVars>>

AppNext ==
    \/ Draw
    \/ KeyPress
    \/ PollTimeout
    \/ HandleAnyEvent
    \/ EventsDone

\* The monitor process has started: it is bound at the socket path.
MonitorInit == Init /\ listening

\* The UI task of the monitor on its own, with arbitrary events arriving.
AppSpec == MonitorInit /\ [][AppNext]_vars

\* The sequences of at most n of the given entries.
LogSeqs(entries, n) == UNION {[1..m -> entries] : m \in 0..n}

RECURSIVE AfterEntries(_, _)
\* App after the first n entries of the sequence arrived as NewLogEntry events
\* from the two proxies, which have both announced themselves.
AfterEntries(seq, n) ==
    IF n = 0
    THEN handle_event(handle_event(AppNew, ProxyConnected(ProxyInfoOf("p1"))),
                      ProxyConnected(ProxyInfoOf("p2")))
    ELSE handle_event(AfterEntries(seq, n - 1), NewLogEntry(WithId(seq[n], n)))

\* The monitor after entries of every level have arrived, up to the cap.
ViewInit ==
    /\ ProxyInit
    /\ listening
    /\ \E seq \in LogSeqs(LogEntries, MAX_LOGS) :
          app = AfterEntries(seq, Len(seq)) /\ arrived = Len(seq)
    /\ uiState = "draw"
    /\ keys = 0
    /\ ReaderInit

ViewNext ==
    \/ Draw
    \/ ViewKeyPress
    \/ PollTimeout
    \/ EventsDone

\* The UI task with a user who only switches tabs, moves the selection and
\* sets the proxy filter, over logs of every level.
ViewSpec == ViewInit /\ [][ViewNext]_vars

\* --------------------------------------------------------- run_ipc_server
\* The lines a proxy writes: an IpcEnvelope by its message, or a line that
\* serde_json does not parse.  The first proxy announces itself, reports and
\* stops; the second never announces itself, pings and may write garbage.
Envelopes(c) ==
    IF c = 1
    THEN { <<"ProxyStarted", ProxyInfoOf("p1")>>,
           <<"ProxyStopped", "p1">>,
           <<"StatsUpdate", ProxyStatsOf("p1", 1)>>,
           <<"LogEntry", [level |-> "Response", message |-> <<"o", "k">>, proxy_id |-> "p1"]>> }
    ELSE { <<"StatsUpdate", ProxyStatsOf("p2", 1)>>,
           <<"LogEntry", [level |-> "Request", message |-> <<"o", "k">>, proxy_id |-> "p2"]>>,
           <<"Ping", 0>>,
           <<"Malformed", 0>> }

\* the match on envelope.message in the reader task
EventOf(envelope) ==
    CASE envelope[1] = "ProxyStarted" -> ProxyConnected(envelope[2])
      [] envelope[1] = "ProxyStopped" -> ProxyDisconnected(envelope[2])
      [] envelope[1] = "LogEntry"     -> NewLogEntry(envelope[2])
      [] envelope[1] = "StatsUpdate"  -> StatsUpdate(envelope[2])
      [] OTHER                        -> NoEvent

\* a proxy connects and server.accept() spawns the reader task
Accept(c) ==
    /\ readerPc[c] = "idle"
    /\ readerPc' = [readerPc EXCEPT ![c] = "recv"]
    /\ UNCHANGED <<appVars, wire, wireClosed, readerEvent, event_rx, readLog, applied>>
    /\ UNCHANGED <<clientVars, bridgeVars, directOpen, ipcVars, pipeVars>>

\* the proxy writes a line to its connection
ProxyWrites(c) ==
    /\ readerPc[c] # "idle"
    /\ ~wireClosed[c]
    /\ Len(wire[c]) + Len(readLog[c]) < MaxEnvelopes
    /\ \E envelope \in Envelopes(c) : wire' = [wire EXCEPT ![c] = Append(@, envelope)]
    /\ UNCHANGED <<appVars, wireClosed, readerPc, readerEvent, event_rx, readLog, applied>>
    /\ UNCHANGED <<clientVars, bridgeVars, directOpen, ipcVars, pipeVars>>

\* the proxy closes its end
ProxyCloses(c) ==
    /\ readerPc[c] # "idle"
    /\ ~wireClosed[c]
    /\ wireClosed' = [wireClosed EXCEPT ![c] = TRUE]
    /\ UNCHANGED <<appVars, wire, readerPc, readerEvent, event_rx, readLog, applied>>
    /\ UNCHANGED <<clientVars, bridgeVars, directOpen, ipcVars, pipeVars>>

\* mutant: a malformed line on one connection ends every reader task
ReaderRecvMalformedEndsAll(c) ==
    /\ readerPc[c] = "recv"
    /\ wire[c] # << >>
    /\ wire' = [wire EXCEPT ![c] = Tail(@)]
    /\ LET envelope == Head(wire[c])
       IN IF envelope[1] = "Malformed"
          THEN /\ readerPc' = [d \in Conns |-> "done"]
               /\ UNCHANGED <<readerEvent, readLog>>
          ELSE IF EventOf(envelope) = NoEvent
          THEN UNCHANGED <<readerPc, readerEvent, readLog>>
          ELSE /\ readerPc' = [readerPc EXCEPT ![c] = "send"]
               /\ readerEvent' = [readerEvent EXCEPT ![c] = EventOf(envelope)]
               /\ readLog' = [readLog EXCEPT ![c] = Append(@, EventOf(envelope))]
    /\ UNCHANGED <<appVars, wireClosed, event_rx, applied>>
    /\ UNCHANGED <<clientVars, bridgeVars, directOpen, ipcVars, pipeVars>>

\* connection.receive_message() returns a line: Err for a malformed one ends
\* the task, an envelope that is no proxy event is skipped, the others are
\* mapped and handed to tx.send
ReaderRecv(c) ==
    /\ readerPc[c] = "recv"
    /\ wire[c] # << >>
    /\ wire' = [wire EXCEPT ![c] = Tail(@)]
    /\ LET envelope == Head(wire[c])
       IN IF envelope[1] = "Malformed"
          THEN /\ readerPc' = [readerPc EXCEPT ![c] = "done"]
               /\ UNCHANGED <<readerEvent, readLog>>
          ELSE IF EventOf(envelope) = NoEvent
          THEN UNCHANGED <<readerPc, readerEvent, readLog>>
          ELSE /\ readerPc' = [readerPc EXCEPT ![c] = "send"]
               /\ readerEvent' = [readerEvent EXCEPT ![c] = EventOf(envelope)]
               /\ readLog' = [readLog EXCEPT ![c] = Append(@, EventOf(envelope))]
    /\ UNCHANGED <<appVars, wireClosed, event_rx, applied>>
    /\ UNCHANGED <<clientVars, bridgeVars, directOpen, ipcVars, pipeVars>>

\* connection.receive_message() returns Ok(None): the peer closed
ReaderEof(c) ==
    /\ readerPc[c] = "recv"
    /\ wire[c] = << >>
    /\ wireClosed[c]
    /\ readerPc' = [readerPc EXCEPT ![c] = "done"]
    /\ UNCHANGED <<appVars, wire, wireClosed, readerEvent, event_rx, readLog, applied>>
    /\ UNCHANGED <<clientVars, bridgeVars, directOpen, ipcVars, pipeVars>>

\* mutant: try_send, the event is dropped when the queue is full
ReaderSendDropsWhenFull(c) ==
    /\ readerPc[c] = "send"
    /\ uiState \notin {"quit", "panicked"}
    /\ event_rx' = IF Len(event_rx) < EVENT_QUEUE_CAPACITY
                   THEN Append(event_rx, <<c, readerEvent[c]>>)
                   ELSE event_rx
    /\ readerPc' = [readerPc EXCEPT ![c] = "recv"]
    /\ readerEvent' = [readerEvent EXCEPT ![c] = NoEvent]
    /\ UNCHANGED <<appVars, wire, wireClosed, readLog, applied>>
    /\ UNCHANGED <<clientVars, bridgeVars, directOpen, ipcVars, pipeVars>>

\* tx.send(event).await completes: the queue has room
ReaderSend(c) ==
    /\ readerPc[c] = "send"
    /\ uiState \notin {"quit", "panicked"}
    /\ Len(event_rx) < EVENT_QUEUE_CAPACITY
    /\ event_rx' = Append(event_rx, <<c, readerEvent[c]>>)
    /\ readerPc' = [readerPc EXCEPT ![c] = "recv"]
    /\ readerEvent' = [readerEvent EXCEPT ![c] = NoEvent]
    /\ UNCHANGED <<appVars, wire, wireClosed, readLog, applied>>
    /\ UNCHANGED <<clientVars, bridgeVars, directOpen, ipcVars, pipeVars>>

\* tx.send(event).await returns Err: the UI task dropped the receiver
ReaderSendErr(c) ==
    /\ readerPc[c] = "send"
    /\ uiState \in {"quit", "panicked"}
    /\ readerPc' = [readerPc EXCEPT ![c] = "done"]
    /\ readerEvent' = [readerEvent EXCEPT ![c] = NoEvent]
    /\ UNCHANGED <<appVars, wire, wireClosed, event_rx, readLog, applied>>
    /\ UNCHANGED <<clientVars, bridgeVars, directOpen, ipcVars, pipeVars>>

\* event_rx.try_recv() returns Ok(event): app.handle_event(event)
UiRecv ==
    /\ uiState = "events"
    /\ event_rx # << >>
    /\ Apply(Head(event_rx)[1], Head(event_rx)[2])
    /\ event_rx' = Tail(event_rx)
    /\ UNCHANGED <<uiState, keys, wire, wireClosed, readerPc, readerEvent, readLog>>
    /\ UNCHANGED <<clientVars, bridgeVars, directOpen, ipcVars, pipeVars>>

MonitorNext ==
    \/ \E c \in Conns : Accept(c)
    \/ \E c \in Conns : ProxyWrites(c)
    \/ \E c \in Conns : ProxyCloses(c)
    \/ \E c \in Conns : ReaderRecv(c)
    \/ \E c \in Conns : ReaderEof(c)
    \/ \E c \in Conns : ReaderSend(c)
    \/ \E c \in Conns : ReaderSendErr(c)
    \/ Draw
    \/ PollTimeout
    \/ QuitKey
    \/ UiRecv
    \/ EventsDone

\* The monitor with its connections, its reader tasks and a user who only
\* watches and quits.
MonitorSpec == MonitorInit /\ [][MonitorNext]_vars

\* The runtime schedules every task that can run: the UI loop goes round, a
\* reader with a line to read reads it, and a reader waiting in tx.send gets
\* the room that keeps appearing in the queue (the channel serves its waiting
\* senders in order).  Nothing obliges a proxy to write or the user to quit.
MonitorFairSpec ==
    /\ MonitorSpec
    /\ WF_vars(Draw)
    /\ WF_vars(PollTimeout)
    /\ WF_vars(UiRecv)
    /\ WF_vars(EventsDone)
    /\ \A c \in Conns : WF_vars(ReaderRecv(c)) /\ SF_vars(ReaderSend(c))

\* ------------------------------------------------------------ IpcConnection
\* One connection (mcp-common/src/ipc.rs) at the level of bytes.  A message
\* stands for the IpcEnvelope: its text is the one part of the envelope whose
\* characters the caller chooses.  The characters: a letter, a space, a line
\* feed, a backslash and a double quote.
IpcChars == {"n", "sp", "nl", "bs", "quote"}

IpcMessages == UNION {[1..m -> IpcChars] : m \in 0..MaxMessageLen}

\* mutant: the text is written as it is
EscapeCharRaw(c) == <<c>>

\* serde_json writes a string: line feed as \n, backslash as \\, quote as \"
EscapeChar(c) ==
    CASE c = "nl"    -> <<"bs", "n">>
      [] c = "bs"    -> <<"bs", "bs">>
      [] c = "quote" -> <<"bs", "quote">>
      [] OTHER       -> <<c>>

RECURSIVE Escape(_)
Escape(str) == IF str = << >> THEN << >> ELSE EscapeChar(Head(str)) \o Escape(Tail(str))

\* serde_json::to_string(&envelope)
to_string(m) == <<"quote">> \o Escape(m) \o <<"quote">>

RECURSIVE Unescape(_)
\* The characters of the body of a JSON string, <<"Err">> when the body holds
\* a bare quote, a bare line feed, an unknown escape or a lone backslash.
Unescape(body) ==
    IF body = << >> THEN << >>
    ELSE IF Head(body) \in {"quote", "nl"} THEN <<"Err">>
    ELSE IF Head(body) = "bs"
    THEN IF Len(body) < 2 \/ body[2] \notin {"n", "bs", "quote"}
         THEN <<"Err">>
         ELSE LET rest == Unescape(SubSeq(body, 3, Len(body)))
                  c == IF body[2] = "n" THEN "nl" ELSE body[2]
              IN IF rest = <<"Err">> THEN rest ELSE <<c>> \o rest
    ELSE LET rest == Unescape(Tail(body))
         IN IF rest = <<"Err">> THEN rest ELSE <<Head(body)>> \o rest

\* serde_json::from_str::<IpcEnvelope>(text): <<"Some", m>> or <<"Err">>
from_str(text) ==
    IF Len(text) >= 2 /\ text[1] = "quote" /\ text[Len(text)] = "quote"
    THEN LET m == Unescape(SubSeq(text, 2, Len(text) - 1))
         IN IF m = <<"Err">> THEN <<"Err">> ELSE <<"Some", m>>
    ELSE <<"Err">>

RECURSIVE trim(_)
\* str::trim
trim(text) ==
    IF text = << >> THEN text
    ELSE IF Head(text) \in {"sp", "nl"} THEN trim(Tail(text))
    ELSE IF text[Len(text)] \in {"sp", "nl"} THEN trim(SubSeq(text, 1, Len(text) - 1))
    ELSE text

\* send_message is called: the envelope is serialized; write_all(json),
\* write_all(b"\n") and flush have these bytes to write
SendMessage ==
    /\ ipcWriting = << >>
    /\ ~ipcClosed
    /\ Len(ipcSent) < MaxMessages
    /\ \E m \in IpcMessages :
          /\ ipcWriting' = <<m>>
          /\ ipcPending' = to_string(m) \o <<"nl">>
    /\ UNCHANGED <<ipcStream, ipcClosed, ipcLine, ipcSent, ipcReceived>>
    /\ UNCHANGED <<clientVars, bridgeVars, directOpen, appVars, readerVars, pipeVars>>

\* the socket takes some of the bytes; with the last one send_message returns Ok
WriteChunk ==
    /\ ipcPending # << >>
    /\ ~ipcClosed
    /\ \E k \in 1..Len(ipcPending) :
          /\ ipcStream' = ipcStream \o SubSeq(ipcPending, 1, k)
          /\ ipcPending' = SubSeq(ipcPending, k + 1, Len(ipcPending))
          /\ IF k = Len(ipcPending)
             THEN ipcSent' = Append(ipcSent, ipcWriting[1]) /\ ipcWriting' = << >>
             ELSE UNCHANGED <<ipcSent, ipcWriting>>
    /\ UNCHANGED <<ipcClosed, ipcLine, ipcReceived>>
    /\ UNCHANGED <<clientVars, bridgeVars, directOpen, appVars, readerVars, pipeVars>>

\* the writing end is dropped or its process dies, between two messages or in
\* the middle of one
WriterCloses ==
    /\ ~ipcClosed
    /\ ipcClosed' = TRUE
    /\ UNCHANGED <<ipcWriting, ipcPending, ipcStream, ipcLine, ipcSent, ipcReceived>>
    /\ UNCHANGED <<clientVars, bridgeVars, directOpen, appVars, readerVars, pipeVars>>

\* Position of the first line feed of bytes, 0 when there is none.
FirstNewline(bytes) ==
    IF \E i \in 1..Len(bytes) : bytes[i] = "nl"
    THEN CHOOSE i \in 1..Len(bytes) :
            bytes[i] = "nl" /\ \A j \in 1..(i - 1) : bytes[j] # "nl"
    ELSE 0

\* the match on serde_json::from_str(&line.trim()) in receive_message
Parsed(text) == from_str(trim(text))

\* receive_message, read_line is polled with bytes available: it takes them up
\* to and with the first line feed; with the line feed it returns and the line
\* is parsed, without it goes on waiting
ReceiveLine ==
    /\ Len(ipcReceived) < MaxMessages + 2
    /\ ipcStream # << >>
    /\ LET at == FirstNewline(ipcStream)
       IN IF at = 0
          THEN /\ ipcLine' = ipcLine \o ipcStream
               /\ ipcStream' = << >>
               /\ UNCHANGED ipcReceived
          ELSE /\ ipcReceived' = Append(ipcReceived, Parsed(ipcLine \o SubSeq(ipcStream, 1, at)))
               /\ ipcLine' = << >>
               /\ ipcStream' = SubSeq(ipcStream, at + 1, Len(ipcStream))
    /\ UNCHANGED <<ipcWriting, ipcPending, ipcClosed, ipcSent>>
    /\ UNCHANGED <<clientVars, bridgeVars, directOpen, appVars, readerVars, pipeVars>>

\* receive_message, read_line meets the end of the stream: bytes_read == 0
\* gives Ok(None), the bytes of an unfinished line are parsed
ReceiveEof ==
    /\ Len(ipcReceived) < MaxMessages + 2
    /\ ipcStream = << >>
    /\ ipcClosed
    /\ ipcReceived' = Append(ipcReceived,
                             IF ipcLine = << >> THEN <<"None">> ELSE Parsed(ipcLine))
    /\ ipcLine' = << >>
    /\ UNCHANGED <<ipcWriting, ipcPending, ipcStream, ipcClosed, ipcSent>>
    /\ UNCHANGED <<clientVars, bridgeVars, directOpen, appVars, readerVars, pipeVars>>

IpcNext ==
    \/ SendMessage
    \/ WriteChunk
    \/ WriterCloses
    \/ ReceiveLine
    \/ ReceiveEof

\* A writer and a reader on one connection.
IpcSpec == MonitorInit /\ [][IpcNext]_vars

\* ------------------------------------- StdioHandler, at the level of pipes
\* The select! of handle_communication polls its branches only between arms:
\* the body of the arm that won runs to its end, awaits included, before the
\* next select!.  The child echoes what it reads, as cat does.

\* Length of the longest line the user writes, in units of text.
MaxLineUnits == 2 * PipeCapacity + 2

pipeFrame == <<clientVars, bridgeVars, directOpen, appVars, readerVars, ipcVars>>

\* branch 3: read_line on user stdin gave a line; log_request, then
\* child_stdin.write_all(input.as_bytes()).await begins
PipeStdinLine ==
    /\ pipePc = "select"
    /\ pipeLinesRead < MaxPipeLines
    /\ pipeLinesRead' = pipeLinesRead + 1
    /\ \E len \in 1..MaxLineUnits : pipeToWrite' = len
    /\ pipePc' = "write_stdin"
    /\ UNCHANGED <<pipeIn, pipeHeld, pipeOut, pipeShutdown, pipeForwarded>>
    /\ UNCHANGED pipeFrame

\* write_all makes progress while the pipe has room; after the last unit the
\* flush returns, the counters are updated and the loop is back at its select!
PipeWrite ==
    /\ pipePc = "write_stdin"
    /\ pipeIn < PipeCapacity
    /\ pipeIn' = pipeIn + 1
    /\ pipeToWrite' = pipeToWrite - 1
    /\ pipePc' = IF pipeToWrite = 1 THEN "select" ELSE "write_stdin"
    /\ UNCHANGED <<pipeLinesRead, pipeHeld, pipeOut, pipeShutdown, pipeForwarded>>
    /\ UNCHANGED pipeFrame

\* branch 4: the read_line on child stdout, polled by the select!, takes what
\* the pipe holds
PipeStdoutRead ==
    /\ pipePc = "select"
    /\ pipeOut > 0
    /\ pipeOut' = pipeOut - 1
    /\ pipeForwarded' = pipeForwarded + 1
    /\ UNCHANGED <<pipePc, pipeLinesRead, pipeToWrite, pipeIn, pipeHeld, pipeShutdown>>
    /\ UNCHANGED pipeFrame

\* branch 1: _ = shutdown_rx.recv() => break
PipeShutdown ==
    /\ pipePc = "select"
    /\ pipeShutdown
    /\ pipePc' = "done"
    /\ UNCHANGED <<pipeLinesRead, pipeToWrite, pipeIn, pipeHeld, pipeOut, pipeShutdown,
                   pipeForwarded>>
    /\ UNCHANGED pipeFrame

\* shutdown_tx.send(())
PipeShutdownBroadcast ==
    /\ ~pipeShutdown
    /\ pipePc # "done"
    /\ pipeShutdown' = TRUE
    /\ UNCHANGED <<pipePc, pipeLinesRead, pipeToWrite, pipeIn, pipeHeld, pipeOut,
                   pipeForwarded>>
    /\ UNCHANGED pipeFrame

\* The child reads from its stdin when it has nothing left to write.
PipeChildReads ==
    /\ pipePc # "done"
    /\ pipeHeld = 0
    /\ pipeIn > 0
    /\ pipeIn' = pipeIn - 1
    /\ pipeHeld' = 1
    /\ UNCHANGED <<pipePc, pipeLinesRead, pipeToWrite, pipeOut, pipeShutdown, pipeForwarded>>
    /\ UNCHANGED pipeFrame

\* The child writes what it read to its stdout, which waits while the pipe is full.
PipeChildWrites ==
    /\ pipePc # "done"
    /\ pipeHeld > 0
    /\ pipeOut < PipeCapacity
    /\ pipeHeld' = pipeHeld - 1
    /\ pipeOut' = pipeOut + 1
    /\ UNCHANGED <<pipePc, pipeLinesRead, pipeToWrite, pipeIn, pipeShutdown, pipeForwarded>>
    /\ UNCHANGED pipeFrame

PipeNext ==
    \/ PipeStdinLine
    \/ PipeWrite
    \/ PipeStdoutRead
    \/ PipeShutdown
    \/ PipeShutdownBroadcast
    \/ PipeChildReads
    \/ PipeChildWrites

\* The bridge between a user who writes lines and a child that echoes them.
PipeSpec == Init /\ [][PipeNext]_vars

\* ------------------------------------------------------------------ claims
\* Events handed to send() and accepted: the queue took them or the fallback did.
Accepted == (1..(nextId - 1)) \ {pendingSend}

StrictlyIncreasing(s) == \A i, j \in 1..Len(s) : i < j => s[i] < s[j]

\* C1: the events written to the monitor, over all connections and reconnects,
\* are a subsequence of the order in which send() accepted them: ids are the
\* acceptance order, so the delivered sequence is strictly increasing (no swap,
\* no duplicate) and holds accepted events only.
C1_DeliveredIsSubsequence ==
    /\ StrictlyIncreasing(delivered)
    /\ Range(delivered) \subseteq Accepted

C1_Witness ==
    /\ connects >= 2
    /\ Len(delivered) >= 3
    /\ \E e \in Accepted : e \notin Range(delivered) /\ e < delivered[Len(delivered)]

\* Everything the client still holds, oldest first.
Held == messages_to_send \o buffer \o queue

\* C2: no accepted event is lost except by the overflow cap: on every step in
\* which a send fails and the connection is discarded (forwarding while
\* connected, or in the middle of the flush), the failing event and every event
\* not yet sent stay held in their order ahead of the later ones, and the
\* worker is disconnected again with the initial delay.
C2_FailedSendKeepsEvents ==
    [][(client = "Some" /\ client' = "None") =>
         /\ Held' = Held
         /\ reconnect_delay' = INITIAL_RECONNECT_DELAY]_vars

\* C3: an event that sits in the overflow buffer while a monitor is listening
\* is eventually written to it, unless the monitor goes away again or the
\* client is shut down (checked under FairSpec, where the caller may go on
\* sending for ever).
C3_BufferedEventuallyDelivered ==
    \A e \in 1..MaxEvents :
        (e \in Range(buffer) /\ listening)
            ~> (e \in Range(delivered) \/ ~listening \/ shutdownSent)

\* C4: send() never suspends its caller.
C4_SendNeverSuspends == pendingSend = 0

\* C6: the overflow buffer never holds more than MAX_BUFFER_SIZE events.
C6_BufferBounded == Len(buffer) <= MAX_BUFFER_SIZE

C6_Witness ==
    /\ Len(buffer) = MAX_BUFFER_SIZE
    /\ dropped # {}
    /\ connects > 0

\* Number of events the worker has taken out of the queue so far.
Received == Cardinality(Accepted) - Len(queue)

\* C7: under sustained disconnection (no connect has succeeded) the buffer holds
\* exactly the earliest min(received, MAX_BUFFER_SIZE) accepted events in order,
\* and every later one was dropped: no head eviction.
C7_EarliestRetained ==
    connects = 0 =>
        /\ buffer = [i \in 1..Min(Received, MAX_BUFFER_SIZE) |-> i]
        /\ dropped = (MAX_BUFFER_SIZE + 1)..Received

C7_Witness ==
    /\ connects = 0
    /\ Len(buffer) = MAX_BUFFER_SIZE
    /\ dropped # {}
    /\ buffer[1] = 1

\* C5: in each direction of the bridge the lines written to the destination
\* are the lines of the source, whole and in order: child stdin gets the user's
\* lines 1, 2, ... unaltered, user stdout gets what the child wrote.
C5_LinesPassUnaltered ==
    /\ \A k \in 1..Len(childIn) : childIn[k] = Line(k, "full")
    /\ \A k \in 1..Len(userOut) : userOut[k] = childIn[k]

\* Number of entries of the given level among the first j events sent.
CountLevel(level, j) == Cardinality({i \in 1..j : sent[i][1] = level})

LogLevels == {"Request", "Response", "Error"}

\* C8: a proxy that connected to the monitor at start sends ProxyStarted before
\* any log entry, and for the echoing child the k-th Response entry comes after
\* the k-th Request entry: no prefix of the events holds more responses than
\* requests.
C8_StartedRequestResponseOrder ==
    /\ (ipc_client = "Direct" /\ \E j \in 1..Len(sent) : sent[j][1] \in LogLevels)
          => sent[1] = ProxyStartedEvent
    /\ \A j \in 1..Len(sent) : CountLevel("Response", j) <= CountLevel("Request", j)

C8_Witness ==
    /\ ipc_client = "Direct"
    /\ Len(sent) >= 3
    /\ sent[1] = ProxyStartedEvent
    /\ sent[2] = log_request(Line(1, "full"))
    /\ sent[3] = log_response(Line(1, "full"))

\* The ways the loop of handle_communication ends.
ExitReasons ==
    {"shutdown", "stdin_eof", "child_stdin_error", "stdout_closed",
     "user_stdout_error", "child_exit"}

\* C9: the loop never ends because an emit failed, and a line that was read is
\* forwarded whatever became of its log entry: the lines read from user stdin
\* are the lines written to the child, the lines read from child stdout are the
\* lines written to user stdout, but for the one line whose write failed.
C9_EmitFailureNeverStopsForwarding ==
    /\ bridgePc = "done" => exitReason \in ExitReasons
    /\ stdinNext - 1 = Len(childIn) + (IF exitReason = "child_stdin_error" THEN 1 ELSE 0)
    /\ stdoutNext - 1 = Len(userOut) + (IF exitReason = "user_stdout_error" THEN 1 ELSE 0)

C9_Witness ==
    /\ ipc_client = "Direct"
    /\ emitErr
    /\ Len(sent) = 1
    /\ Len(childIn) >= 1
    /\ Len(userOut) >= 1

\* C10: once the shutdown signal is broadcast the loop takes no other branch
\* of its select: the next iteration is the exit.
C10_ExitWithinOneIteration == [][shutdownSignal => ~OtherBranch]_vars

\* The log entries of the applied NewLogEntry events, in the order they were
\* applied, each with the id it arrived with.
AppliedEntries ==
    LET news == SelectSeq(applied, LAMBDA a : a[2][1] = "NewLogEntry")
    IN [i \in 1..Len(news) |-> WithId(news[i][2][2], i)]

\* The last n elements of a sequence, all of it when it is shorter.
LastN(seq, n) == SubSeq(seq, Len(seq) - Min(Len(seq), n) + 1, Len(seq))

\* C11: after any sequence of NewLogEntry events the log holds at most MAX_LOGS
\* entries and is exactly the most recent min(n, MAX_LOGS) entries received,
\* unchanged and in arrival order.
C11_LogsAreMostRecent ==
    /\ Len(app.logs) <= MAX_LOGS
    /\ app.logs = LastN(AppliedEntries, MAX_LOGS)

C11_Witness ==
    /\ Len(AppliedEntries) > MAX_LOGS
    /\ Len(app.logs) = MAX_LOGS
    /\ app.logs[1].proxy_id # app.logs[2].proxy_id

\* The levels a tab shows.
LevelsOfTab(tab) ==
    CASE tab = "All"      -> LogLevel
      [] tab = "Messages" -> {"Request", "Response"}
      [] tab = "Errors"   -> {"Error", "Warning"}
      [] tab = "System"   -> {"Info", "Debug"}

RECURSIVE ViewOf(_, _, _)
\* The entries of a log sequence that tab T under proxy filter P shows, oldest first.
ViewOf(logs, T, P) ==
    IF logs = << >>
    THEN << >>
    ELSE LET l == logs[Len(logs)]
             front == ViewOf(SubSeq(logs, 1, Len(logs) - 1), T, P)
         IN IF (P = NoProxy \/ l.proxy_id = P) /\ l.level \in LevelsOfTab(T)
            THEN Append(front, l)
            ELSE front

\* C12: for every log sequence, active tab T and proxy filter P,
\* get_filtered_logs returns exactly the entries of the selected proxy (any
\* proxy when none is selected) whose level belongs to T, in insertion order,
\* and get_tab_log_count(T) is the length of that view.
C12_FilteredViewIsExact ==
    \A T \in TabType : \A P \in ProxyIds \cup {NoProxy} :
        LET s == [app EXCEPT !.active_tab = T, !.selected_proxy = P]
        IN /\ get_filtered_logs(s) = ViewOf(app.logs, T, P)
           /\ get_tab_log_count(s, T) = Len(ViewOf(app.logs, T, P))

\* The user filtered on p2 and opened the Errors tab: of an error of p1 and a
\* warning of p2 the view shows the warning only.
C12_Witness ==
    /\ app.selected_proxy = "p2"
    /\ app.active_tab = "Errors"
    /\ Len(app.logs) = 2
    /\ {app.logs[1].level, app.logs[2].level} = {"Error", "Warning"}
    /\ Len(get_filtered_logs(app)) = 1
    /\ get_filtered_logs(app)[1].level = "Warning"
    /\ get_tab_log_count(app, "All") = 1

\* The step handles a NewLogEntry event.
NewLogEntryHandled == arrived' = arrived + 1

\* C13: if navigation_mode is Follow when a NewLogEntry is handled and the
\* filtered view is not empty afterwards, the selection is on the last entry of
\* the filtered view right after the event, whether or not the entry evicted
\* another or passes the tab and proxy filter.
C13_FollowSelectsLatest ==
    [][(NewLogEntryHandled
        /\ app.navigation_mode = "Follow"
        /\ Len(get_filtered_logs(app')) > 0)
       => app'.selected_index = Len(get_filtered_logs(app')) - 1]_vars

\* Following, the third entry has evicted the first; the newest entry is not
\* shown by the active tab, and the selection is on the only entry shown.
C13_Witness ==
    /\ uiState = "events"
    /\ arrived = MAX_LOGS + 1
    /\ Len(app.logs) = MAX_LOGS
    /\ app.navigation_mode = "Follow"
    /\ app.active_tab = "Messages"
    /\ app.logs[Len(app.logs)].level = "Info"
    /\ Len(get_filtered_logs(app)) = 1
    /\ app.selected_index = 0

\* C14: while navigation_mode is Search or SearchResults, handling a
\* NewLogEntry leaves selected_index, viewport_offset, navigation_mode,
\* search_query and search_results as they were: the selection does not snap
\* to the bottom.
C14_SearchNotDisturbed ==
    [][(NewLogEntryHandled /\ app.navigation_mode \in {"Search", "SearchResults"})
       => /\ app'.selected_index = app.selected_index
          /\ app'.viewport_offset = app.viewport_offset
          /\ app'.navigation_mode = app.navigation_mode
          /\ app'.search_query = app.search_query
          /\ app'.search_results = app.search_results]_vars

\* The user searches "R" on the All tab and one entry matched; a second
\* matching entry has arrived since: it is in the log, not in the results, and
\* the selection is still on the first result.
C14_Witness ==
    /\ uiState = "events"
    /\ app.navigation_mode = "Search"
    /\ app.active_tab = "All"
    /\ app.search_query = <<"R">>
    /\ app.search_results = <<0>>
    /\ Len(app.logs) = 2
    /\ matches_query(app, app.logs[2], to_lowercase(app.search_query))
    /\ app.selected_index = 0

\* The elements of a finite set of numbers as an ascending sequence.
Ascending(S) ==
    CHOOSE f \in [1..Cardinality(S) -> S] :
        \A i, j \in 1..Cardinality(S) : i < j => f[i] < f[j]

\* Case folding, character by character.
Lowercased(str) == [i \in 1..Len(str) |-> LowerChar(str[i])]

\* part occurs in whole, ignoring case
OccursIn(part, whole) ==
    \E from \in 1..(Len(whole) - Len(part) + 1) :
        \A k \in 1..Len(part) :
            Lowercased(whole)[from + k - 1] = Lowercased(part)[k]

\* The search results of query q in state s: the indices of the logs that pass
\* the proxy and tab filter and mention q in the message, in the name of their
\* proxy if it is known, or in the name of their level.
ResultsFor(s, q) ==
    IF q = << >>
    THEN << >>
    ELSE Ascending(
           {i \in 0..(Len(s.logs) - 1) :
              LET l == s.logs[i + 1]
              IN /\ s.selected_proxy = NoProxy \/ l.proxy_id = s.selected_proxy
                 /\ l.level \in LevelsOfTab(s.active_tab)
                 /\ \/ OccursIn(q, l.message)
                    \/ l.proxy_id \in DOMAIN s.proxies
                         /\ OccursIn(q, s.proxies[l.proxy_id].name)
                    \/ OccursIn(q, LevelName(l.level))})

\* The step is a keystroke in Search mode that changes the query.
QueryChangingKeystroke ==
    /\ keys' = keys + 1
    /\ uiState' = "events"
    /\ app.navigation_mode = "Search"
    /\ app'.navigation_mode = "Search"
    /\ app'.search_query # app.search_query

\* C15: right after every query-changing keystroke in Search mode, with a
\* non-empty query search_results is the ascending list of the indices of the
\* logs that pass the proxy and tab filter and whose message, known proxy name
\* or level name contains the query, ignoring case; with an empty query it is
\* empty; selected_index and viewport_offset are 0.
C15_SearchResultsExact ==
    [][QueryChangingKeystroke
       => /\ app'.search_results = ResultsFor(app', app'.search_query)
          /\ app'.selected_index = 0
          /\ app'.viewport_offset = 0]_vars

\* The query "R" has just been typed over three kinds of match: the first log
\* matches by its level name only, the second by its message only, both
\* through case folding.
C15_Witness ==
    /\ uiState = "events"
    /\ app.navigation_mode = "Search"
    /\ app.search_query = <<"R">>
    /\ app.active_tab = "All"
    /\ Len(app.logs) = 2
    /\ app.logs[1].level = "Request"
    /\ app.logs[2].level = "Info"
    /\ app.search_results = <<0, 1>>
    /\ app.selected_index = 0
    /\ app.viewport_offset = 0

\* The states one navigation operation of the log view, or one drawing, leads
\* to from s, and s itself.
NavigatedFrom(s) ==
    {s, scroll_up(s), scroll_down(s), page_up(s), page_down(s),
     scroll_to_top(s), scroll_to_bottom(s), exit_navigation_mode(s)}
    \cup {prepare_viewport(s, h) : h \in ViewHeights}

\* The states an arriving log entry leads to from s, and s itself.
ArrivedAt(s) ==
    {s} \cup {handle_event(s, NewLogEntry(WithId(e, arrived + 1))) : e \in LogEntries}

\* index x brought into a list of n entries
ClampIndex(x, n) == IF n = 0 THEN 0 ELSE Min(x, n - 1)

\* Coming back to tab a from state later on tab b shows what tab a showed in
\* state onA, brought into the filtered view of the moment.
RestoredOn(a, b, onA, later) ==
    LET back == switch_tab(later, a)
        n == Len(get_filtered_logs(back))
        seen == IF a = b THEN later ELSE onA
    IN /\ back.active_tab = a
       /\ back.selected_index = ClampIndex(seen.selected_index, n)
       /\ back.viewport_offset = IF n = 0 THEN 0 ELSE seen.viewport_offset

C17_SelectedProxyIsKnown ==
    /\ app.selected_proxy = NoProxy \/ app.selected_proxy \in DOMAIN app.proxies
    /\ \A id \in ProxyIds :
          LET after == handle_event(app, ProxyDisconnected(id))
          IN /\ DOMAIN after.proxies = DOMAIN app.proxies \ {id}
             /\ \A p \in DOMAIN after.proxies : after.proxies[p] = app.proxies[p]
             /\ after.selected_proxy =
                  IF app.selected_proxy = id THEN NoProxy ELSE app.selected_proxy

\* Both proxies are connected and the user has filtered on p1: p1 going away
\* clears the filter, p2 going away does not.
C17_Witness ==
    /\ DOMAIN app.proxies = ProxyIds
    /\ app.selected_proxy = "p1"
    /\ handle_event(app, ProxyDisconnected("p1")).selected_proxy = NoProxy
    /\ handle_event(app, ProxyDisconnected("p2")).selected_proxy = "p1"

\* C18: handling StatsUpdate(stats) changes nothing but the stats field of the
\* proxy with that id; when the map has no such proxy, never registered or
\* already removed, the App state is unchanged and no proxy entry is created.
C18_StatsUpdateFrame ==
    \A p \in ProxyIds : \A n \in 0..2 :
        LET new_stats == ProxyStatsOf(p, n)
            after == handle_event(app, StatsUpdate(new_stats))
        IN /\ DOMAIN after.proxies = DOMAIN app.proxies
           /\ \A f \in DOMAIN app \ {"proxies"} : after[f] = app[f]
           /\ \A q \in DOMAIN app.proxies :
                 /\ after.proxies[q].id = app.proxies[q].id
                 /\ after.proxies[q].name = app.proxies[q].name
                 /\ after.proxies[q].stats =
                      IF q = p THEN new_stats ELSE app.proxies[q].stats

\* The statistics of the registered proxy p1 have been replaced, and those
\* sent for p2, which never registered, were handled without effect.
C18_Witness ==
    /\ DOMAIN app.proxies = {"p1"}
    /\ app.proxies["p1"].stats.total_requests = 1
    /\ \E i \in 1..Len(applied) :
          /\ applied[i][2][1] = "StatsUpdate"
          /\ applied[i][2][2].proxy_id = "p2"

\* The number of entries the NewLogEntry of this step drains.
DrainedCount == saturating_sub(Len(app.logs) + 1, MAX_LOGS)

\* C19: when a NewLogEntry makes the log exceed MAX_LOGS and k oldest entries
\* are drained, the saved selected_index and viewport_offset of every tab each
\* decrease by k, saturating at 0.
C19_EvictionAdjustsSavedIndices ==
    [][(NewLogEntryHandled /\ DrainedCount > 0)
       => \A t \in TabType :
            /\ app'.tab_states[t].selected_index =
                 saturating_sub(app.tab_states[t].selected_index, DrainedCount)
            /\ app'.tab_states[t].viewport_offset =
                 saturating_sub(app.tab_states[t].viewport_offset, DrainedCount)]_vars

\* The events of connection c in a sequence of <<connection, event>> pairs.
EventsOfConn(seq, c) ==
    LET own == SelectSeq(seq, LAMBDA pair : pair[1] = c)
    IN [i \in 1..Len(own) |-> own[i][2]]

\* The event the reader task of c holds in tx.send(event).await.
HeldBy(c) == IF readerPc[c] = "send" THEN <<readerEvent[c]>> ELSE << >>

MalformedRead(c) ==
    /\ readerPc[c] = "recv"
    /\ wire[c] # << >>
    /\ Head(wire[c])[1] = "Malformed"
    /\ wire'[c] = Tail(wire[c])

\* A reader task has read an event that is not applied yet.
ReadNotApplied == \E c \in Conns : Len(EventsOfConn(applied, c)) < Len(readLog[c])

\* C21: when a reader task receives a malformed line only that task ends: the
\* line changes nothing in the App, in the queue or in the other reader tasks,
\* and whenever events have been read and not applied yet, on the connection
\* of the bad line or another, on a connection accepted earlier or later, a
\* moment comes when all of them are applied, unless the user quits.
C21_MalformedLineEndsOneReader ==
    /\ [][\A c \in Conns : MalformedRead(c) =>
            /\ readerPc'[c] = "done"
            /\ \A d \in Conns \ {c} : readerPc'[d] = readerPc[d]
            /\ UNCHANGED <<app, applied, event_rx, readerEvent, readLog>>]_vars
    /\ ReadNotApplied ~> (~ReadNotApplied \/ uiState = "quit")

\* The reader of connection 2 has ended on a malformed line (its proxy has not
\* closed and the monitor runs); the event read on that connection before the
\* bad line is applied, and so is an event of connection 1.
C21_Witness ==
    /\ uiState # "quit"
    /\ readerPc[2] = "done"
    /\ ~wireClosed[2]
    /\ Len(readLog[2]) = 1
    /\ EventsOfConn(applied, 2) = readLog[2]
    /\ Len(EventsOfConn(applied, 1)) >= 1
    /\ applied[Len(applied)][1] = 1

\* The results of the receive_message calls that are messages.
ReceivedMessages ==
    LET some == SelectSeq(ipcReceived, LAMBDA r : r[1] = "Some")
    IN [i \in 1..Len(some) |-> some[i][2]]

\* C22: for any sequence of events written with send_message on a connection,
\* the peer calling receive_message again and again obtains the same events in
\* the same order, one per call, none partial or merged, and obtains None only
\* after all of them, once the writer has closed.  (The bytes of a
\* send_message that the closing cut short are not such an event: the call
\* after the last event gives an error for them, or the message when only its
\* line feed is missing.)
C22_FramingRoundTrip ==
    /\ \A i \in 1..Len(ipcReceived) :
          IF i <= Len(ipcSent)
          THEN ipcReceived[i] = <<"Some", ipcSent[i]>>
          ELSE /\ ipcClosed
               /\ \/ ipcReceived[i] = <<"None">>
                  \/ /\ i = Len(ipcSent) + 1
                     /\ ipcWriting # << >>
                     /\ ipcReceived[i] \in {<<"Err">>, <<"Some", ipcWriting[1]>>}
    /\ (ipcReceived # << >> /\ ipcReceived[Len(ipcReceived)] = <<"None">>
          /\ ipcWriting = << >>)
       => ReceivedMessages = ipcSent

\* Two messages were written, the first with a line feed and a quote in its
\* text, the second with a backslash followed by the letter n; the reader has
\* obtained both and then None.
C22_Witness ==
    /\ ipcSent = << <<"nl", "quote">>, <<"bs", "n">> >>
    /\ ipcReceived = << <<"Some", ipcSent[1]>>, <<"Some", ipcSent[2]>>, <<"None">> >>
    /\ ipcWriting = << >>

C24_FollowPinsLatest ==
    (app.navigation_mode = "Follow" /\ Len(get_filtered_logs(app)) > 0)
        => app.selected_index = Len(get_filtered_logs(app)) - 1

\* Entry l passes the proxy and tab filter of state s and mentions its query.
MatchesSearch(s, l) ==
    /\ s.selected_proxy = NoProxy \/ l.proxy_id = s.selected_proxy
    /\ l.level \in LevelsOfTab(s.active_tab)
    /\ \/ OccursIn(s.search_query, l.message)
       \/ l.proxy_id \in DOMAIN s.proxies /\ OccursIn(s.search_query, s.proxies[l.proxy_id].name)
       \/ OccursIn(s.search_query, LevelName(l.level))

\* C25: in every reachable state with navigation_mode Search or SearchResults
\* and a non-empty query, every entry of the search-filtered view matches the
\* query and passes the active tab filter and the selected-proxy filter, also
\* after evictions have shifted the log under the stored result indices and
\* after a tab switch has restored a saved SearchResults mode.
C25_SearchViewMatches ==
    (app.navigation_mode \in {"Search", "SearchResults"} /\ app.search_query # << >>)
        => \A k \in 1..Len(get_search_filtered_logs(app)) :
              MatchesSearch(app, get_search_filtered_logs(app)[k])

\* C26: after any sequence of monitor events and user operations, whenever
\* the view shown (the search-filtered view) is not empty, selected_index is
\* at most its length minus one: navigation never moves the selection out of
\* the view, and events and tab switches that shrink the view do not leave it
\* outside.
C26_SelectionInRange ==
    Len(get_search_filtered_logs(app)) > 0
        => app.selected_index <= Len(get_search_filtered_logs(app)) - 1


\* C27: whenever the detail overlay is shown, selected_log_index refers to an
\* existing entry of level Request or Response; when the overlay opens this is
\* the entry that was under the cursor, and while the overlay stays open it
\* remains that same entry, whatever events arrive.
C27_DetailShowsChosenEntry ==
    [][app'.show_detail_view =>
          LET i   == app'.selected_log_index
              idx == SearchFilteredIndices(app)
          IN /\ i # NoIndex
             /\ i < Len(app'.logs)
             /\ app'.logs[i + 1].level \in {"Request", "Response"}
             /\ IF app.show_detail_view
                THEN app'.logs[i + 1].id = app.logs[app.selected_log_index + 1].id
                ELSE /\ app.selected_index < Len(idx)
                     /\ app'.logs[i + 1] = app.logs[idx[app.selected_index + 1] + 1]]_vars


\* C28: while the worker is disconnected and the reconnect delay has elapsed
\* since the last attempt, a connect attempt follows (or the worker is shut
\* down), also when the caller keeps sending events.
C28_DueConnectIsAttempted ==
    (client = "None" /\ delayElapsed /\ workerPc = "select")
        ~> (~delayElapsed \/ workerPc = "done")

\* C29: the stdio bridge loop ends only on the shutdown signal, on the exit of
\* the child (seen by child.wait() or as the end of its stdout), or on a failed
\* write to child stdin or user stdout; in particular not on the end of input
\* on user stdin and not on the closing of child stderr.
C29_BridgeExitsOnlyWhenDue ==
    bridgePc = "done" =>
        exitReason \in {"shutdown", "child_exit", "stdout_closed",
                        "child_stdin_error", "user_stdout_error"}

\* C30: a Request log entry is emitted only for a line whose write and flush to
\* child stdin completed: every Request entry sent is a line the child was given.
C30_RequestLoggedAfterWrite ==
    \A i \in 1..Len(sent) :
        sent[i][1] = "Request" => sent[i][2] \in Range(childIn)


RECURSIVE BytesOf(_)
\* Total length of the lines of a sequence, in units of half a line.
BytesOf(lines) ==
    IF lines = << >> THEN 0
    ELSE (IF Head(lines)[2] = "full" THEN 2 ELSE 1) + BytesOf(Tail(lines))

\* C31: between the iterations of the bridge loop total_requests is the number
\* of lines written and flushed to the child, successful_requests the number
\* of lines written and flushed to the user, bytes_transferred the length of
\* all of them; and no counter ever decreases, so the snapshots taken by the
\* stats tick are non-decreasing in every component.
C31_CountersMatchTraffic ==
    /\ [](/\ stats.total_requests = Len(childIn)
          /\ stats.successful_requests = Len(userOut)
          /\ stats.bytes_transferred = BytesOf(childIn) + BytesOf(userOut))
    /\ [][/\ stats'.total_requests >= stats.total_requests
          /\ stats'.successful_requests >= stats.successful_requests
          /\ stats'.failed_requests >= stats.failed_requests
          /\ stats'.bytes_transferred >= stats.bytes_transferred]_vars

\* Both directions have carried lines, one of them cut by a dropped read, the
\* child has failed and the loop has counted its exit.
C31_Witness ==
    /\ bridgePc = "done"
    /\ exitReason = "child_exit"
    /\ stats.failed_requests = 1
    /\ Len(childIn) = 2
    /\ Len(userOut) = 2
    /\ \E i \in 1..2 : childIn[i][2] = "tail"
    /\ stats.bytes_transferred = 6


\* The keys that scroll the log view.
ScrollKeys ==
    {Key(code, "", FALSE) : code \in {"Up", "Down", "PageUp", "PageDown", "Home", "End"}}

\* The main view has the keyboard and the focus is on the log view.
LogViewHasKeys == DispatchMode(app) = "main" /\ app.focus_area = "LogView"

\* C32: in Follow mode every scroll key (up, down, page up, page down, home,
\* end) gives Navigate, whether the selection can move or not; Esc in Navigate
\* with the focus on the log view gives Follow with the selection on the last
\* entry of the filtered view.
C32_ScrollLeavesFollowEscReturns ==
    /\ (LogViewHasKeys /\ app.navigation_mode = "Follow")
          => \A key \in ScrollKeys : handle_key(app, key).navigation_mode = "Navigate"
    /\ (LogViewHasKeys /\ app.navigation_mode = "Navigate")
          => LET after == handle_key(app, Key("Esc", "", FALSE))
                 n == Len(get_filtered_logs(after))
             IN /\ after.navigation_mode = "Follow"
                /\ n > 0 => after.selected_index = n - 1

\* The user has scrolled up from Follow on a view of one entry: the mode is
\* Navigate although the selection could not move; Esc goes back to Follow on
\* that entry, and from there no scroll key moves the selection.
C32_Witness ==
    /\ LogViewHasKeys
    /\ app.navigation_mode = "Navigate"
    /\ keys = 1
    /\ Len(get_filtered_logs(app)) = 1
    /\ app.selected_index = 0
    /\ LET back == handle_key(app, Key("Esc", "", FALSE))
       IN /\ back.navigation_mode = "Follow"
          /\ back.selected_index = 0
          /\ \A key \in ScrollKeys :
                /\ handle_key(back, key).navigation_mode = "Navigate"
                /\ handle_key(back, key).selected_index = 0


\* Esc has left the search: Navigate, nothing left of the query.
SearchLeft(after) ==
    /\ after.navigation_mode = "Navigate"
    /\ after.search_query = << >>
    /\ after.search_results = << >>
    /\ after.search_cursor = 0

\* Enter in Search keeps what the search shows.
SearchConfirmed(before, after) ==
    /\ after.navigation_mode = "SearchResults"
    /\ after.search_query = before.search_query
    /\ after.search_results = before.search_results
    /\ after.selected_index = before.selected_index

\* C33, as stated: with no overlay open, Esc in Search or SearchResults always
\* gives Navigate, an empty query, empty results and search_cursor 0; Enter in
\* Search gives SearchResults with query, results and selection unchanged.
C33_EscAlwaysLeavesSearch ==
    /\ (DispatchMode(app) \in {"search", "main"}
           /\ app.navigation_mode \in {"Search", "SearchResults"})
          => SearchLeft(handle_key(app, Key("Esc", "", FALSE)))
    /\ DispatchMode(app) = "search"
          => SearchConfirmed(app, handle_key(app, Key("Enter", "", FALSE)))

\* C33, with the focus named: Esc in Search, and Esc in SearchResults with the
\* focus on the log view, gives Navigate, an empty query, empty results and
\* search_cursor 0; Enter in Search gives SearchResults with query, results
\* and selection unchanged.
C33_EscLeavesSearchFromLogView ==
    /\ (\/ DispatchMode(app) = "search"
        \/ /\ DispatchMode(app) = "main"
           /\ app.navigation_mode = "SearchResults"
           /\ app.focus_area = "LogView")
          => SearchLeft(handle_key(app, Key("Esc", "", FALSE)))
    /\ DispatchMode(app) = "search"
          => SearchConfirmed(app, handle_key(app, Key("Enter", "", FALSE)))

\* The user has searched "R", one of two entries matched, and Enter has
\* confirmed the results: Esc from here gives Navigate on the last of the two
\* entries of the view.
C33_Witness ==
    /\ DispatchMode(app) = "main"
    /\ app.navigation_mode = "SearchResults"
    /\ app.focus_area = "LogView"
    /\ app.search_query = <<"R">>
    /\ Len(app.search_results) = 1
    /\ Len(get_filtered_logs(app)) = 2
    /\ LET after == handle_key(app, Key("Esc", "", FALSE))
       IN SearchLeft(after) /\ after.selected_index = 1


\* Heights of at least one line that the viewport is prepared for.
PreparedHeights == 1..(MaxHeight + 1)

\* C34: after prepare_viewport(h) with h >= 1 on a non-empty view,
\* selected_index < filtered_len, viewport_offset <= selected_index <
\* viewport_offset + h and viewport_offset <= filtered_len - 1, so that
\* get_relative_selection(h) is defined and get_visible_logs(h) is
\* filtered[viewport_offset .. min(viewport_offset + h, filtered_len)]; on an
\* empty view both indices are 0.
C34_ViewportHoldsSelection ==
    \A h \in PreparedHeights :
        LET after == prepare_viewport(app, h)
            filtered == get_search_filtered_logs(after)
            n == Len(filtered)
        IN IF n = 0
           THEN after.selected_index = 0 /\ after.viewport_offset = 0
           ELSE /\ after.selected_index < n
                /\ after.viewport_offset <= after.selected_index
                /\ after.selected_index < after.viewport_offset + h
                /\ after.viewport_offset <= n - 1
                /\ get_relative_selection(after, h)
                      = after.selected_index - after.viewport_offset
                /\ get_visible_logs(after, h)
                      = [k \in 1..(Min(after.viewport_offset + h, n) - after.viewport_offset)
                            |-> filtered[after.viewport_offset + k]]

\* The selection is past the end of a view of one entry and the viewport is
\* still at line 1: preparing the viewport brings both back to the only entry.
C34_Witness ==
    /\ Len(get_search_filtered_logs(app)) = 1
    /\ app.selected_index = 1
    /\ app.viewport_offset = 1
    /\ prepare_viewport(app, 1).selected_index = 0
    /\ prepare_viewport(app, 1).viewport_offset = 0
    /\ Len(get_visible_logs(prepare_viewport(app, 2), 2)) = 1


\* The step is a connect attempt of the worker: it restarts the delay.
ConnectAttempt == delayElapsed /\ ~delayElapsed'

\* C35: the reconnect delay starts at 1 s and is always within [1 s, 30 s]; a
\* failed connect sets it to the smaller of twice the delay and 30 s, a
\* successful connect sets it to 1 s, nothing else changes it, and a connect is
\* attempted only while no connection is held.
C35_ReconnectDelayInRange ==
    /\ reconnect_delay = 1
    /\ [](reconnect_delay \in 1..30)
    /\ [][IF ConnectAttempt
          THEN /\ client = "None"
               /\ \/ /\ client' = "Some"
                     /\ connects' = connects + 1
                     /\ reconnect_delay' = 1
                  \/ /\ client' = "None"
                     /\ connects' = connects
                     /\ reconnect_delay' =
                          IF 2 * reconnect_delay < 30 THEN 2 * reconnect_delay ELSE 30
          ELSE /\ reconnect_delay' = reconnect_delay
               /\ connects' = connects]_vars

\* The worker has connected once, which set the delay to 1 s, lost the
\* connection, and failed to connect often enough since for the delay to be
\* at its cap.
C35_Witness ==
    /\ connects = 1
    /\ client = "None"
    /\ ~listening
    /\ reconnect_delay = 30
    /\ delivered # << >>


\* What the user looks at is the same in both states: log selection, tab,
\* navigation mode, focus and proxy filter.
SameView(a, b) ==
    /\ a.selected_index = b.selected_index
    /\ a.active_tab = b.active_tab
    /\ a.navigation_mode = b.navigation_mode
    /\ a.focus_area = b.focus_area
    /\ a.selected_proxy = b.selected_proxy

\* The query with one character taken out at position i.
WithoutChar(q, i) == SubSeq(q, 1, i - 1) \o SubSeq(q, i + 1, Len(q))

C37_NoWriteWriteDeadlock ==
    ~(/\ pipePc = "write_stdin"
      /\ pipeIn = PipeCapacity
      /\ pipeHeld > 0
      /\ pipeOut = PipeCapacity)


\* C38: when the loop ends because the child has exited, seen by child.wait()
\* or as the end of the child's stdout, every line the child wrote to its
\* stdout before exiting has been forwarded to user stdout.
C38_ChildOutputForwardedBeforeExit ==
    (bridgePc = "done" /\ exitReason \in {"child_exit", "stdout_closed"})
        => Len(userOut) = childEchoed


\* C39: in every state of the monitor search_cursor is at most the length of
\* search_query and lies on a character boundary of it, and no key typed into
\* the search has made search_input_char, search_backspace or search_delete
\* fail.
C39_SearchCursorOnCharBoundary ==
    /\ uiState # "panicked"
    /\ app.search_cursor <= ByteLen(app.search_query)
    /\ CharsBefore(app.search_query, app.search_cursor) # NoIndex

====
